---- MODULE Spec2Model ----
(***************************************************************************)
(* LedgerBot: the tool-calling turn.  A Feishu message is accepted by      *)
(* handleIMMessage, processMessage resolves the sender's display name      *)
(* (ensureUser), OpenAIService.Execute asks the model for tool calls and   *)
(* applies them one after another against the bill repository and the      *)
(* user mapping repository, and processMessage sends the reply.            *)
(*                                                                         *)
(* Strings built by fmt.Sprintf and by + are sequences of string parts, so *)
(* that concatenation is \o and "the reply contains this confirmation" is  *)
(* a statement about the parts.  Chinese literals of the source are        *)
(* written as ASCII tags.                                                  *)
(***************************************************************************)
EXTENDS Integers, Sequences, FiniteSets, TLC

\* ---------------------------------------------------------------- bounds
MaxCalls == 2       \* tool calls in one model response
MaxRecords == 2     \* record ids the repository can hand out
MaxTurns == 2       \* messages handled in one behaviour
MaxOps == 3         \* calls of the user mapping repository begun by goroutines
MaxThread == 2     \* messages of a listed thread
MaxDay == 730      \* days the server clock can be at, from the first of January 2023
MaxBills == 7      \* records of the ledger a query is answered from
MaxCacheOps == 3   \* calls of the cache begun, runs of its cleanup included
MaxTick == 1       \* how far the clock the cache reads can move on

\* ---------------------------------------------------------------- inputs
Senders == {"ou_a", "ou_b"}
Names == {"Zhang", "Li"}
Texts == {"lunch 30"}

RecID(n) == "rec" \o ToString(n)
RecordIDs == {RecID(n) : n \in 1..MaxRecords}

\* A JSON value of the argument object: a string or a number.
S(v) == [t |-> "s", v |-> v]
N(v) == [t |-> "n", n |-> v]

\* fn.Arguments: either text json.Unmarshal rejects, or a JSON object.
Malformed == [json |-> "malformed", obj |-> <<>>]
Obj(o) == [json |-> "object", obj |-> o]

ToolCall(name, arguments) == [name |-> name, arguments |-> arguments]

ToolCalls ==
  { ToolCall("record_transaction",
             Obj([description |-> S("lunch"), amount |-> N(30),
                  type |-> S("expense"), category |-> S("food")])),
    ToolCall("record_transaction",
             Obj([description |-> S("lunch"), amount |-> N(0),
                  type |-> S("expense"), category |-> S("food")])),
    ToolCall("update_transaction",
             Obj([record_id |-> S(RecID(1)), amount |-> N(45)])),
    ToolCall("delete_transaction", Obj([record_id |-> S(RecID(1))])),
    ToolCall("query_transactions", Obj([time_range_type |-> S("today")])),
    ToolCall("rename_user", Obj([name |-> S("Li")])),
    ToolCall("rename_user", Obj([name |-> S("")])),
    ToolCall("transfer_money", Obj([amount |-> N(30)])),
    ToolCall("record_transaction", Malformed),
    ToolCall("", Obj(<<>>)) }

\* The tool calls that longer lists are made of: a record that succeeds, one
\* that fails on its arguments, a delete, a rename, a call without a name.
BatchCalls ==
  { ToolCall("record_transaction",
             Obj([description |-> S("lunch"), amount |-> N(30),
                  type |-> S("expense"), category |-> S("food")])),
    ToolCall("record_transaction",
             Obj([description |-> S("lunch"), amount |-> N(0),
                  type |-> S("expense"), category |-> S("food")])),
    ToolCall("delete_transaction", Obj([record_id |-> S(RecID(1))])),
    ToolCall("rename_user", Obj([name |-> S("Li")])),
    ToolCall("", Obj(<<>>)) }

\* The sequences over a set of m to n elements.
SeqsOf(set, m, n) == UNION {[1..k -> set] : k \in m..n}

\* msg.ToolCalls: every list of up to two tool calls, and the longer lists
\* of batch calls.
ShortLen == IF MaxCalls < 2 THEN MaxCalls ELSE 2
ToolCallLists ==
  SeqsOf(ToolCalls, 0, ShortLen) \cup SeqsOf(BatchCalls, ShortLen + 1, MaxCalls)

\* What CreateChatCompletion gives back: an error, a response without
\* choices, or a first choice with content and tool calls.
Response(kind, content, toolCalls) ==
  [kind |-> kind, content |-> content, toolCalls |-> toolCalls]
Responses ==
  {Response("error", "", <<>>), Response("empty", "", <<>>),
   Response("message", "", <<>>)}
  \cup {Response("message", "hello", tcs) : tcs \in ToolCallLists}

\* The tool calls of the ledger turns: records with every kind of argument
\* fault (description empty or missing; amount missing, not a number, not
\* positive), a record without category that carries a date and the message
\* it came from, updates of one field, of several, of none, and with values
\* the handler passes over, a delete, and renames to a name, to a blank and to
\* the empty string.
LedgerCalls ==
  { ToolCall("record_transaction",
             Obj([description |-> S("lunch"), amount |-> N(30),
                  type |-> S("expense"), category |-> S("food")])),
    ToolCall("record_transaction",
             Obj([description |-> S("salary"), amount |-> N(100),
                  type |-> S("income"), date |-> S("2020-01-01"),
                  original_message |-> S("got paid")])),
    ToolCall("record_transaction",
             Obj([description |-> S(""), amount |-> N(30)])),
    ToolCall("record_transaction", Obj([amount |-> N(30)])),
    ToolCall("record_transaction", Obj([description |-> S("lunch")])),
    ToolCall("record_transaction",
             Obj([description |-> S("lunch"), amount |-> S("thirty")])),
    ToolCall("record_transaction",
             Obj([description |-> S("lunch"), amount |-> N(0 - 5)])),
    ToolCall("update_transaction",
             Obj([record_id |-> S(RecID(1)), amount |-> N(45)])),
    ToolCall("update_transaction",
             Obj([record_id |-> S(RecID(1)), description |-> S("dinner"),
                  type |-> S("income"), category |-> S("meal")])),
    ToolCall("update_transaction",
             Obj([record_id |-> S(RecID(1)), description |-> S(""),
                  amount |-> N(0 - 5), category |-> S("")])),
    ToolCall("update_transaction", Obj([record_id |-> S(RecID(1))])),
    ToolCall("delete_transaction", Obj([record_id |-> S(RecID(1))])),
    ToolCall("rename_user", Obj([name |-> S("Li")])),
    ToolCall("rename_user", Obj([name |-> S(" ")])),
    ToolCall("rename_user", Obj([name |-> S("")])) }

\* The tool calls that pairs are made of: the batch calls, an update of the
\* amount and an update with values the handler passes over.
PairCalls ==
  BatchCalls \cup
  { ToolCall("update_transaction",
             Obj([record_id |-> S(RecID(1)), amount |-> N(45)])),
    ToolCall("update_transaction",
             Obj([record_id |-> S(RecID(1)), description |-> S(""),
                  amount |-> N(0 - 5), category |-> S("")])) }

\* msg.ToolCalls of a ledger turn: one ledger call, a pair, or a longer list
\* of batch calls.
LedgerCallLists ==
  SeqsOf(LedgerCalls, 1, 1) \cup SeqsOf(PairCalls, 2, ShortLen)
    \cup SeqsOf(BatchCalls, ShortLen + 1, MaxCalls)

LedgerResponses == {Response("message", "", tcs) : tcs \in LedgerCallLists}

\* ---------------------------------------------------------------- strings
Lit(s) == <<s>>
Num(n) == <<ToString(n)>>

WhoAreYou == Lit("who are you? tell me what to call you. you can say: I am Zhang San")
CannotUnderstand == Lit("sorry, cannot understand your request")
NoValidAIResponse == Lit("sorry, no valid AI response")
Banner == Lit("partially completed:") \o Lit("\n")

\* strings.TrimSpace(s) = "" for the names of the model: only the empty
\* string and the blank one are whitespace-only.
IsBlank(s) == s \in {"", " "}

\* ---------------------------------------------------------------- arguments
getString(m, key) ==
  IF key \in DOMAIN m /\ m[key].t = "s" THEN m[key].v ELSE ""

getFloat64(m, key) ==
  IF key \in DOMAIN m /\ m[key].t = "n" THEN m[key].n ELSE 0

\* json.Unmarshal([]byte(fn.Arguments), &args)
Unmarshal(arguments) ==
  IF arguments.json = "object"
  THEN [err |-> "", args |-> arguments.obj]
  ELSE [err |-> "invalid character", args |-> <<>>]

\* ---------------------------------------------------------------- stores
\* st = [ledger, nextRec, mappings, file, now]:
\*   ledger    the bill repository, record id -> bill
\*   nextRec   how many record ids the repository has handed out, plus one
\*   mappings  userMappingRepository.mappings, openID -> userName
\*   file      user_mapping.json as last written by save()
\*   now       what time.Now() returns, a tick of the server clock (ClockAt)
Store(ledger, nextRec, mappings, file, now) ==
  [ledger |-> ledger, nextRec |-> nextRec, mappings |-> mappings, file |-> file,
   now |-> now]

\* One fault an external call of a tool's handler may hit: the handler's
\* GetBill, the use case's GetBill, the repository write, the search, the
\* write of the mapping file.
FaultsOf(name) ==
  CASE name = "record_transaction" -> {"none", "write"}
    [] name = "update_transaction" -> {"none", "get", "get2", "write"}
    [] name = "delete_transaction" -> {"none", "write"}
    [] name = "query_transactions" -> {"none", "search"}
    [] name = "rename_user" -> {"none", "save"}
    [] OTHER -> {"none"}

Put(m, k, v) == [x \in DOMAIN m \cup {k} |-> IF x = k THEN v ELSE m[x]]
Remove(m, k) == [x \in DOMAIN m \ {k} |-> m[x]]

GetUserName(mappings, openID) ==
  IF openID \notin DOMAIN mappings
  THEN [name |-> "", err |-> "user name not found"]
  ELSE IF IsBlank(mappings[openID])
  THEN [name |-> "", err |-> "user name is empty or invalid"]
  ELSE [name |-> mappings[openID], err |-> ""]

\* save(): MkdirAll, MarshalIndent, WriteFile; the file is written whole.
save(st, f) ==
  IF f = "save"
  THEN [err |-> "write failed", st |-> st]
  ELSE [err |-> "", st |-> [st EXCEPT !.file = st.mappings]]

\* Variant: only the empty string is turned down.
SetUserName_EmptyOnly(st, openID, userName, f) ==
  IF userName = ""
  THEN [err |-> "user name cannot be empty", st |-> st]
  ELSE save([st EXCEPT !.mappings = Put(st.mappings, openID, userName)], f)

\* "if strings.TrimSpace(userName) == "" { return error }", then the
\* assignment and save()
SetUserName(st, openID, userName, f) ==
  IF IsBlank(userName)
  THEN [err |-> "user name cannot be empty", st |-> st]
  ELSE save([st EXCEPT !.mappings = Put(st.mappings, openID, userName)], f)

\* ---------------------------------------------------------------- repository
Bill(description, amount, type, category, date, userName, originalMsg, recordID) ==
  [Description |-> description, Amount |-> amount, Type |-> type,
   Category |-> category, Date |-> date, UserName |-> userName,
   OriginalMsg |-> originalMsg, RecordID |-> recordID]

NoBill == Bill("", 0, "", "", 0, "", "", "")

\* bitableBillRepository.CreateBill: AddRecordToBitable stores the fields of
\* the bill under a record id of the table's own, handed out in order and
\* never reused; the id is logged, the bill is left as it was given.
RepoCreateBill(st, bill, f) ==
  IF f = "write" \/ st.nextRec > MaxRecords
  THEN [err |-> "failed to create bill", bill |-> NoBill, st |-> st]
  ELSE [err |-> "", bill |-> bill,
        st |-> [st EXCEPT !.ledger = Put(st.ledger, RecID(st.nextRec), bill),
                          !.nextRec = st.nextRec + 1]]

\* bitableBillRepository.GetBill: the listed bill whose id is the record id.
RepoGetBill(st, id, failed) ==
  IF failed \/ id \notin DOMAIN st.ledger
  THEN [err |-> "bill not found", bill |-> NoBill]
  ELSE [err |-> "", bill |-> st.ledger[id]]

\* update(id, record) -> error | nil
RepoUpdateBill(st, id, bill, f) ==
  IF f = "write" \/ id \notin DOMAIN st.ledger
  THEN [err |-> "failed to update bill", st |-> st]
  ELSE [err |-> "", st |-> [st EXCEPT !.ledger = Put(st.ledger, id, bill)]]

\* delete(id) -> error | nil
RepoDeleteBill(st, id, f) ==
  IF f = "write" \/ id \notin DOMAIN st.ledger
  THEN [err |-> "failed to delete bill", st |-> st]
  ELSE [err |-> "", st |-> [st EXCEPT !.ledger = Remove(st.ledger, id)]]

\* ---------------------------------------------------------------- time
\* time.Time: the day (days since 0001-01-01), the second of the day, the
\* nanosecond of the second and the location.
Time(abs, sec, nano, loc) == [abs |-> abs, sec |-> sec, nano |-> nano, loc |-> loc]

\* time.Time{}
ZeroTime == Time(0, 0, 0, "UTC")

\* ":=": the value of a set of one, worked out once.
Only(one) == CHOOSE x \in one : TRUE

IsLeap(year) == year % 4 = 0 /\ (year % 100 # 0 \/ year % 400 = 0)

DaysIn(year, month) ==
  IF month = 2 THEN (IF IsLeap(year) THEN 29 ELSE 28)
  ELSE IF month \in {4, 6, 9, 11} THEN 30 ELSE 31

RECURSIVE DaysBeforeMonth(_, _)
DaysBeforeMonth(year, month) ==
  IF month = 1 THEN 0
  ELSE DaysBeforeMonth(year, month - 1) + DaysIn(year, month - 1)

DaysBeforeYear(year) ==
  365 * (year - 1) + ((year - 1) \div 4) - ((year - 1) \div 100)
    + ((year - 1) \div 400)

\* The day of time.Date(year, month, day, ...): a month outside 1..12 and a
\* day outside the month are carried over, as time.Date normalises them.
AbsDay(year, month, day) ==
  DaysBeforeYear(year + ((month - 1) \div 12))
    + DaysBeforeMonth(year + ((month - 1) \div 12), ((month - 1) % 12) + 1)
    + day - 1

RECURSIVE YearFrom(_, _)
YearFrom(year, abs) ==
  IF DaysBeforeYear(year + 1) <= abs THEN YearFrom(year + 1, abs) ELSE year

RECURSIVE MonthFrom(_, _, _)
MonthFrom(year, month, rest) ==
  IF rest >= DaysIn(year, month)
  THEN MonthFrom(year, month + 1, rest - DaysIn(year, month))
  ELSE month

\* The date of a day: year, month, day of the month.
InYear(year, rest) ==
  Only({[year |-> year, month |-> month,
         day |-> rest - DaysBeforeMonth(year, month) + 1] :
          month \in {MonthFrom(year, 1, rest)}})

Civil(abs) ==
  Only({InYear(year, abs - DaysBeforeYear(year)) :
          year \in {YearFrom((abs \div 366) + 1, abs)}})

\* t.Year(), t.Month(), t.Day(), t.Weekday() (Sunday is 0)
Year(t) == Civil(t.abs).year
Month(t) == Civil(t.abs).month
Day(t) == Civil(t.abs).day
Weekday(t) == (t.abs + 1) % 7

\* time.Date(year, month, day, 0, 0, 0, 0, location)
StartOfDay(year, month, day) == Time(AbsDay(year, month, day), 0, 0, "Local")

\* time.Date(year, month, day, 23, 59, 59, 999999999, location)
EndOfDay(year, month, day) ==
  Time(AbsDay(year, month, day), 86399, 999999999, "Local")

\* t.AddDate(years, months, days)
AddDate(t, years, months, days) ==
  Only({[u EXCEPT !.abs = AbsDay(c.year + years, c.month + months, c.day + days)] :
          u \in {t}, c \in {Civil(t.abs)}})

\* t.Add(-time.Nanosecond)
SubNanosecond(t) ==
  IF t.nano > 0 THEN [t EXCEPT !.nano = @ - 1]
  ELSE IF t.sec > 0 THEN [t EXCEPT !.sec = @ - 1, !.nano = 999999999]
  ELSE [t EXCEPT !.abs = @ - 1, !.sec = 86399, !.nano = 999999999]

\* time.Now(): the server clock counts days from the first of January 2023
\* and is read at noon.
ClockAt(now) == Time(AbsDay(2023, 1, 1) + now, 43200, 0, "Local")

\* The strings given as start_time and end_time, and what is written in
\* them: a date, a date with a time of day, or something else.
Written(shape, year, month, day, sec) ==
  [shape |-> shape, year |-> year, month |-> month, day |-> day, sec |-> sec]

TimeStrings ==
  {"", "2024-12-01", "2024-12-10", "2024-12-01 08:30:00", "2024-02-30", "tomorrow"}

Reading(str) ==
  CASE str = "2024-12-01" -> Written("2006-01-02", 2024, 12, 1, 0)
    [] str = "2024-12-10" -> Written("2006-01-02", 2024, 12, 10, 0)
    [] str = "2024-12-01 08:30:00" -> Written("2006-01-02 15:04:05", 2024, 12, 1, 30600)
    [] str = "2024-02-30" -> Written("2006-01-02", 2024, 2, 30, 0)
    [] OTHER -> Written("", 0, 0, 0, 0)

\* time.Parse(layout, str): the string has the shape of the layout and
\* names a day of the calendar; the time is in UTC.
Parse(layout, w) ==
  IF w.shape = layout /\ w.month \in 1..12 /\ w.day \in 1..DaysIn(w.year, w.month)
  THEN [t |-> Time(AbsDay(w.year, w.month, w.day), w.sec, 0, "UTC"), err |-> ""]
  ELSE [t |-> ZeroTime, err |-> "parsing time"]

TimeRange(startTime, endTime, err) ==
  [startTime |-> startTime, endTime |-> endTime, err |-> err]

\* Variant: Sunday opens the week.
Monday_SundayFirst(now) == AddDate(now, 0, 0, 0 - Weekday(now) + 1)

\* "weekday := int(now.Weekday()); if weekday == 0 { weekday = 7 };
\* monday := now.AddDate(0, 0, -daysFromMonday)"
Monday(now) ==
  AddDate(now, 0, 0, 0 - ((IF Weekday(now) = 0 THEN 7 ELSE Weekday(now)) - 1))

DayRange(from, to) ==
  Only({TimeRange(StartOfDay(f.year, f.month, f.day), EndOfDay(t.year, t.month, t.day), "") :
          f \in {Civil(from.abs)}, t \in {Civil(to.abs)}})

\* "case TimeRangeThisMonth"
ThisMonth(now) ==
  Only({TimeRange(StartOfDay(Year(now), Month(now), 1),
                  SubNanosecond(StartOfDay(Year(nextMonth), Month(nextMonth), 1)), "") :
          nextMonth \in {AddDate(now, 0, 1, 0)}})

\* "case TimeRangeLastMonth"
LastMonth(now) ==
  Only({TimeRange(StartOfDay(Year(lastMonth), Month(lastMonth), 1),
                  SubNanosecond(StartOfDay(Year(now), Month(now), 1)), "") :
          lastMonth \in {AddDate(now, 0, -1, 0)}})

\* Variant: a date alone is left at the start of its day.
Bound_DateAsParsed(full, date, atSec, atNano) ==
  IF full.err = "" THEN full ELSE date

\* "case TimeRangeCustom", one bound: the full layout first, then the date
\* alone, which is put at atSec, atNano of its day.
Bound(full, date, atSec, atNano) ==
  IF full.err = "" THEN full
  ELSE IF date.err # "" THEN date
  ELSE [t |-> Time(AbsDay(Year(date.t), Month(date.t), Day(date.t)), atSec, atNano, "Local"),
        err |-> ""]

ParseBound(str, atSec, atNano) ==
  Only({Bound(full, date, atSec, atNano) :
          full \in {Parse("2006-01-02 15:04:05", Reading(str))},
          date \in {Parse("2006-01-02", Reading(str))}})

Custom(s, e) ==
  IF s.err # "" THEN TimeRange(ZeroTime, ZeroTime, "invalid start_time format")
  ELSE IF e.err # "" THEN TimeRange(ZeroTime, ZeroTime, "invalid end_time format")
  ELSE TimeRange(s.t, e.t, "")

ParseTimeRange(timeRangeType, startTimeStr, endTimeStr, now) ==
  CASE timeRangeType = "today" -> DayRange(now, now)
    [] timeRangeType = "yesterday" ->
         DayRange(AddDate(now, 0, 0, -1), AddDate(now, 0, 0, -1))
    [] timeRangeType = "this_week" ->
         Only({DayRange(monday, AddDate(monday, 0, 0, 6)) : monday \in {Monday(now)}})
    [] timeRangeType = "last_week" ->
         Only({DayRange(lastMonday, AddDate(lastMonday, 0, 0, 6)) :
                 lastMonday \in {AddDate(Monday(now), 0, 0, -7)}})
    [] timeRangeType = "this_month" -> ThisMonth(now)
    [] timeRangeType = "last_month" -> LastMonth(now)
    [] timeRangeType = "last_7_days" ->
         TimeRange(AddDate(StartOfDay(Year(now), Month(now), Day(now)), 0, 0, -6),
                   EndOfDay(Year(now), Month(now), Day(now)), "")
    [] timeRangeType = "last_30_days" ->
         TimeRange(AddDate(StartOfDay(Year(now), Month(now), Day(now)), 0, 0, -29),
                   EndOfDay(Year(now), Month(now), Day(now)), "")
    [] timeRangeType = "custom" ->
         IF startTimeStr = "" \/ endTimeStr = ""
         THEN TimeRange(ZeroTime, ZeroTime,
                        "custom time range requires both start_time and end_time")
         ELSE Only({Custom(s, e) : s \in {ParseBound(startTimeStr, 0, 0)},
                                      e \in {ParseBound(endTimeStr, 86399, 999999999)}})
    [] OTHER -> TimeRange(ZeroTime, ZeroTime, "unknown time range type")

\* ---------------------------------------------------------------- use case
\* The labels are written by the code points of their characters.
\* "defaultCat := ..." of CreateBill
DefaultCategory == "qita(U+5176 U+4ED6)"

\* The "enum" of "category" in the parameters of record_transaction, and the
\* label the description names as the one to use when unsure.
Categories ==
  {"canyin(U+9910 U+996E)", "jiaotong(U+4EA4 U+901A)", "gouwu(U+8D2D U+7269)",
   "yule(U+5A31 U+4E50)", "yiliao(U+533B U+7597)", "jiaoyu(U+6559 U+80B2)",
   "zhufang(U+4F4F U+623F)", "shuidianfei(U+6C34 U+7535 U+8D39)",
   "tongxun(U+901A U+8BAF)", "fuzhuang(U+670D U+88C5)", "shouru(U+6536 U+5165)",
   "qita(U+5176 U+5B83)"}
FallbackCategory == "qita(U+5176 U+5B83)"

\* BillUseCaseImpl.CreateBill
CreateBillResult(r, st) ==
  IF r.err # ""
  THEN [err |-> "failed to create bill: " \o r.err, bill |-> NoBill, st |-> st]
  ELSE [err |-> "", bill |-> r.bill, st |-> r.st]

\* "if date == nil { now := time.Now(); date = &now }"
DateOrNow(date, now) == IF date = <<>> THEN now ELSE date[1]

UseCaseCreateBill(st, userName, originalMsg, description, amount, billType, category, date, f) ==
  CreateBillResult(
    RepoCreateBill(st,
                   Bill(description, amount, billType,
                        IF category = "" THEN DefaultCategory ELSE category,
                        DateOrNow(date, st.now), userName, originalMsg, ""),
                   f),
    st)

\* A Go pointer argument: <<>> is nil, <<v>> points at v.
Nil == <<>>
Ptr(v) == <<v>>

\* "Apply updates": the fields of the updates map the use case reads.  The
\* map BillService.UpdateBill builds has no "date", so the date stays.
ApplyUpdates(bill, updates) ==
  [bill EXCEPT
     !.Description = IF updates.description # Nil THEN updates.description[1] ELSE @,
     !.Amount = IF updates.amount # Nil THEN updates.amount[1] ELSE @,
     !.Category = IF updates.category # Nil THEN updates.category[1] ELSE @,
     !.Type = IF updates.type # Nil THEN updates.type[1] ELSE @]

UpdateBillResult(w, bill, st) ==
  IF w.err # ""
  THEN [err |-> "failed to update bill: " \o w.err, bill |-> NoBill, st |-> st]
  ELSE [err |-> "", bill |-> bill, st |-> w.st]

\* Variant: an update stamps the bill with the time of the update.
WriteBack_Restamp(st, id, bill, f) ==
  UpdateBillResult(RepoUpdateBill(st, id, [bill EXCEPT !.Date = st.now], f),
                   [bill EXCEPT !.Date = st.now], st)

\* "if err := u.billRepo.UpdateBill(bill); err != nil { ... } return bill, nil"
WriteBack(st, id, bill, f) == UpdateBillResult(RepoUpdateBill(st, id, bill, f), bill, st)

UpdateFetched(g, st, id, updates, f) ==
  IF g.err # ""
  THEN [err |-> g.err, bill |-> NoBill, st |-> st]
  ELSE WriteBack(st, id, ApplyUpdates(g.bill, updates), f)

\* BillUseCaseImpl.UpdateBill: fetch, apply the updates it knows, write back.
UseCaseUpdateBill(st, id, updates, f) ==
  UpdateFetched(RepoGetBill(st, id, f = "get2"), st, id, updates, f)

\* search(window, user, top_n) -> records + totals
RECURSIVE SumAmounts(_, _)
SumAmounts(ledger, ids) ==
  IF ids = {} THEN 0
  ELSE LET id == CHOOSE x \in ids : TRUE
       IN ledger[id].Amount + SumAmounts(ledger, ids \ {id})

\* t is not after u (the two clocks are read in the same zone)
NotAfter(t, u) ==
  \/ t.abs < u.abs
  \/ t.abs = u.abs /\ t.sec < u.sec
  \/ t.abs = u.abs /\ t.sec = u.sec /\ t.nano <= u.nano

\* The records of the user in the window.
InWindow(ledger, userName, startTime, endTime) ==
  {id \in DOMAIN ledger :
     /\ ledger[id].UserName = userName
     /\ NotAfter(startTime, ClockAt(ledger[id].Date))
     /\ NotAfter(ClockAt(ledger[id].Date), endTime)}

Owned(ledger, ids, type) == {id \in ids : ledger[id].Type = type}

\* The records in descending order of amount (the older record first when
\* two amounts are equal), each with its record id.
Larger(ledger, ids) ==
  CHOOSE id \in ids :
    \A other \in ids :
      \/ ledger[id].Amount > ledger[other].Amount
      \/ ledger[id].Amount = ledger[other].Amount /\ ledger[id].Date <= ledger[other].Date

RECURSIVE Top(_, _, _)
Top(ledger, ids, n) ==
  IF ids = {} \/ n <= 0 THEN <<>>
  ELSE Only({<<[ledger[id] EXCEPT !.RecordID = id]>> \o Top(ledger, rest, n - 1) :
               id \in {Larger(ledger, ids)}, rest \in {ids \ {Larger(ledger, ids)}}})

Found(ledger, ids, topN) ==
  [err |-> "",
   bills |-> Top(ledger, ids, topN),
   income |-> SumAmounts(ledger, Owned(ledger, ids, "income")),
   expense |-> SumAmounts(ledger, Owned(ledger, ids, "expense"))]

UseCaseQueryTransactions(st, userName, startTime, endTime, topN, f) ==
  IF f = "search"
  THEN [err |-> "failed to search", bills |-> <<>>, income |-> 0, expense |-> 0]
  ELSE Only({Found(st.ledger, ids, topN) :
               ids \in {InWindow(st.ledger, userName, startTime, endTime)}})

\* ---------------------------------------------------------------- services
\* BillService: the use case bound to one sender's id, name and utterance.
BillService(userID, userName, originalMsg) ==
  [userID |-> userID, userName |-> userName, originalMsg |-> originalMsg]

\* What a handler gives back: the (result, err) pair of the Go function, the
\* stores after it, and the store calls it made, in order.
Outcome(out, err, st, log) == [out |-> out, err |-> err, st |-> st, log |-> log]

Sign(type) == IF type = "income" THEN "+" ELSE "-"
BillType(transType) == IF transType = "income" THEN "income" ELSE "expense"

\* "<mark>\n<description>\n<sign><amount>\n<category>" and, when the bill
\* carries one, "\n<record id>"
BillLines(mark, bill) ==
  Lit(mark) \o Lit(bill.Description) \o Lit(Sign(bill.Type)) \o Num(bill.Amount)
    \o Lit(bill.Category)
    \o (IF bill.RecordID # "" THEN Lit("id:") \o Lit(bill.RecordID) ELSE <<>>)

RecordOK == "OK recorded"
UpdateOK == "OK updated"
DeleteOK == "OK deleted"
RenameOK == "OK from now on I call you:"
QueryOK == "query result"

\* BillService.CreateBill
ServiceCreateBill(st, svc, description, amount, billType, category, originalMsg, f) ==
  UseCaseCreateBill(st, svc.userName,
                    IF originalMsg = "" THEN svc.originalMsg ELSE originalMsg,
                    description, amount, billType, category, <<>>, f)

RecordResult(c, st) ==
  IF c.err # ""
  THEN Outcome(Lit("recording failed"), c.err, st, <<"CreateBill">>)
  ELSE Outcome(BillLines(RecordOK, c.bill), "", c.st, <<"CreateBill">>)

\* Variant: only the description is looked at.
RecordChecked_DescriptionOnly(description, amount, transType, category, originalMsg, svc, st, f) ==
  IF description = ""
  THEN Outcome(Lit("please give valid transaction data"), "invalid args", st, <<>>)
  ELSE RecordResult(
         ServiceCreateBill(st, svc, description, amount, BillType(transType), category,
                           originalMsg, f),
         st)

\* "if description == "" || amount <= 0"
RecordChecked(description, amount, transType, category, originalMsg, svc, st, f) ==
  IF description = "" \/ amount <= 0
  THEN Outcome(Lit("please give valid transaction data"), "invalid args", st, <<>>)
  ELSE RecordResult(
         ServiceCreateBill(st, svc, description, amount, BillType(transType), category,
                           originalMsg, f),
         st)

handleRecordTransaction(args, svc, st, f) ==
  RecordChecked(getString(args, "description"), getFloat64(args, "amount"),
                getString(args, "type"), getString(args, "category"),
                getString(args, "original_message"), svc, st, f)

RenameResult(r, name) ==
  IF r.err # ""
  THEN Outcome(Lit("setting failed"), r.err, r.st, <<"SetUserName">>)
  ELSE Outcome(Lit(RenameOK) \o Lit(name), "", r.st, <<"SetUserName">>)

RenameChecked(name, openID, st, f) ==
  IF name = ""
  THEN Outcome(Lit("name must not be empty"), "empty name", st, <<>>)
  ELSE RenameResult(SetUserName(st, openID, name, f), name)

\* RenameService.Rename is the closure of processMessage: SetUserName(openID, name)
handleRenameUser(args, openID, st, f) ==
  RenameChecked(getString(args, "name"), openID, st, f)

WithRecordID(u, recordID) ==
  IF u.err # "" THEN u ELSE [u EXCEPT !.bill.RecordID = recordID]

\* BillService.UpdateBill: the updates map holds the fields that are not nil.
ServiceUpdateBill(st, recordID, description, amount, billType, category, originalMsg, f) ==
  WithRecordID(
    UseCaseUpdateBill(st, recordID,
                      [description |-> description, amount |-> amount,
                       type |-> billType, category |-> category,
                       original_message |-> originalMsg], f),
    recordID)

Combined(old, currentInput, given) ==
  IF old # "" /\ currentInput # "" THEN old \o " | " \o currentInput
  ELSE IF currentInput # "" THEN currentInput
  ELSE IF old = "" THEN given
  ELSE old

PtrIfSet(s) == IF s # "" THEN Ptr(s) ELSE Nil

\* The original_message of an update: the stored one joined with the
\* utterance, or the utterance alone when the bill cannot be fetched.
CombinedMsg(args, got, currentInput) ==
  IF got.err # ""
  THEN PtrIfSet(currentInput)
  ELSE PtrIfSet(Combined(got.bill.OriginalMsg, currentInput,
                         getString(args, "original_message")))

UpdateResult(u, st) ==
  IF u.err # ""
  THEN Outcome(Lit("update failed"), u.err, st, <<"GetBill", "UpdateBill">>)
  ELSE Outcome(BillLines(UpdateOK, u.bill), "", u.st, <<"GetBill", "UpdateBill">>)

UpdateChecked(recordID, description, amount, billType, category, originalMsg, st, f) ==
  IF description = Nil /\ amount = Nil /\ billType = Nil /\ category = Nil
     /\ originalMsg = Nil
  THEN Outcome(Lit("please give at least one field to update"), "no fields to update",
               st, <<"GetBill">>)
  ELSE UpdateResult(
         ServiceUpdateBill(st, recordID, description, amount, billType, category,
                           originalMsg, f),
         st)

\* Variant: whatever number the arguments hold becomes the new amount.
PtrIfPositive_Any(n) == Ptr(n)

\* "if amt := getFloat64(args, "amount"); amt > 0 { amount = &amt }"
PtrIfPositive(n) == IF n > 0 THEN Ptr(n) ELSE Nil
\* Variant: the type is always handed on, expense when the arguments have none.
PtrIfType_Always(transType) == Ptr(BillType(transType))

\* "if transType := getString(args, "type"); transType != "" { ... billType = &bt }"
PtrIfType(transType) == IF transType # "" THEN Ptr(BillType(transType)) ELSE Nil

UpdateWithID(recordID, args, currentInput, st, f) ==
  IF recordID = ""
  THEN Outcome(Lit("please give the record id"), "record_id is required", st, <<>>)
  ELSE UpdateChecked(recordID,
                     PtrIfSet(getString(args, "description")),
                     PtrIfPositive(getFloat64(args, "amount")),
                     PtrIfType(getString(args, "type")),
                     PtrIfSet(getString(args, "category")),
                     CombinedMsg(args, RepoGetBill(st, recordID, f = "get"), currentInput),
                     st, f)

handleUpdateTransaction(args, svc, currentInput, st, f) ==
  UpdateWithID(getString(args, "record_id"), args, currentInput, st, f)

DeleteResult(d, recordID, st) ==
  IF d.err # ""
  THEN Outcome(Lit("delete failed"), d.err, st, <<"DeleteBill">>)
  ELSE Outcome(Lit(DeleteOK) \o Lit("id:") \o Lit(recordID), "", d.st, <<"DeleteBill">>)

DeleteWithID(recordID, st, f) ==
  IF recordID = ""
  THEN Outcome(Lit("please give the record id"), "record_id is required", st, <<>>)
  ELSE DeleteResult(RepoDeleteBill(st, recordID, f), recordID, st)

handleDeleteTransaction(args, st, f) ==
  DeleteWithID(getString(args, "record_id"), st, f)

TimeRangeTypes == {"today", "yesterday", "this_week", "last_week", "this_month",
                   "last_month", "last_7_days", "last_30_days", "custom"}

\* t.Format("2006-01-02")
TwoDigits(n) == IF n < 10 THEN "0" \o ToString(n) ELSE ToString(n)
FormatDate(t) ==
  Only({ToString(c.year) \o "-" \o TwoDigits(c.month) \o "-" \o TwoDigits(c.day) :
          c \in {Civil(t.abs)}})

\* "for i, bill := range bills": one entry for each bill
RECURSIVE TopLines(_, _)
TopLines(bills, i) ==
  IF i > Len(bills) THEN <<>>
  ELSE Num(i) \o Lit(bills[i].Description) \o Lit(Sign(bills[i].Type))
         \o Num(bills[i].Amount) \o Lit(bills[i].Category)
         \o (IF bills[i].RecordID # "" THEN Lit("id:") \o Lit(bills[i].RecordID) ELSE <<>>)
         \o TopLines(bills, i + 1)

QueryResult(q, w, st) ==
  IF q.err # ""
  THEN Outcome(Lit("query failed"), q.err, st, <<"QueryTransactions">>)
  ELSE Outcome(Lit(QueryOK) \o Lit(FormatDate(w.startTime)) \o Lit(FormatDate(w.endTime))
                 \o Lit("income:") \o Num(q.income)
                 \o Lit("expense:") \o Num(q.expense)
                 \o Lit("net:") \o Num(q.income - q.expense)
                 \o (IF Len(q.bills) > 0
                     THEN Lit("top") \o Num(Len(q.bills)) \o TopLines(q.bills, 1)
                     ELSE Lit("no records")),
               "", st, <<"QueryTransactions">>)

\* Variant: ten records when top_n is not given.
TopN_DefaultTen(args) ==
  IF "top_n" \in DOMAIN args /\ args["top_n"].t = "n" THEN args["top_n"].n ELSE 10

\* "topN := 5; if topNVal, ok := args["top_n"]; ok { ... }"
TopN(args) ==
  IF "top_n" \in DOMAIN args /\ args["top_n"].t = "n" THEN args["top_n"].n ELSE 5

\* "// Parse time range": startTime, endTime, err
QueryWindow(timeRangeTypeStr, args, now) ==
  IF timeRangeTypeStr = "custom"
  THEN ParseTimeRange("custom", getString(args, "start_time"),
                      getString(args, "end_time"), now)
  ELSE ParseTimeRange(timeRangeTypeStr, "", "", now)

Windowed(w, args, svc, st, f) ==
  IF w.err # ""
  THEN Outcome(Lit("time range parse failed"), w.err, st, <<>>)
  ELSE Only({QueryResult(q, w, st) :
               q \in {UseCaseQueryTransactions(st, svc.userName, w.startTime,
                                                w.endTime, TopN(args), f)}})

QueryChecked(timeRangeTypeStr, args, svc, st, f) ==
  IF timeRangeTypeStr = ""
  THEN Outcome(Lit("please give the time range type"), "time_range_type is required",
               st, <<>>)
  ELSE IF timeRangeTypeStr = "custom"
          /\ (getString(args, "start_time") = "" \/ getString(args, "end_time") = "")
  THEN Outcome(Lit("custom range needs start and end"),
               "start_time and end_time are required for custom time range", st, <<>>)
  ELSE Only({Windowed(w, args, svc, st, f) :
               w \in {QueryWindow(timeRangeTypeStr, args, ClockAt(st.now))}})

handleQueryTransactions(args, svc, st, f) ==
  QueryChecked(getString(args, "time_range_type"), args, svc, st, f)

\* ---------------------------------------------------------------- Execute
KnownTools == {"record_transaction", "update_transaction", "delete_transaction",
               "query_transactions", "rename_user"}

\* Variant: the gate is missing.
Blocked_NoGate(userName, name) == FALSE

\* "if userName == "" && name != "rename_user""
Blocked(userName, name) == userName = "" /\ name # "rename_user"

\* The switch over the tool name: the handler's outcome.
Dispatch(name, args, svc, openID, input, st, f) ==
  CASE name = "record_transaction" -> handleRecordTransaction(args, svc, st, f)
    [] name = "update_transaction" -> handleUpdateTransaction(args, svc, input, st, f)
    [] name = "delete_transaction" -> handleDeleteTransaction(args, st, f)
    [] name = "query_transactions" -> handleQueryTransactions(args, svc, st, f)
    [] name = "rename_user" -> handleRenameUser(args, openID, st, f)

\* One pass of "for _, tc := range msg.ToolCalls".  ctl is "next" (the loop
\* goes on) or "return" (Execute returns the prompt at once); line is the
\* string appended to results, if any; status is what became of the call.
Pass(ctl, line, failed, st, log, status) ==
  [ctl |-> ctl, line |-> line, failed |-> failed, st |-> st, log |-> log,
   status |-> status]

\* "if err != nil { ... hasError = true } else { results = append(results, result) }"
Handled(name, h) ==
  IF h.err # ""
  THEN Pass("next", Ptr(Lit("X") \o Lit(name) \o Lit(" failed: ") \o Lit(h.err)),
            TRUE, h.st, h.log, "failed")
  ELSE Pass("next", Ptr(h.out), FALSE, h.st, h.log, "ok")

\* Variant: a call to an operation that is not declared is passed over
\* without a line.
Parsed_UnknownSilent(tc, parsed, userName, svc, openID, input, st, f) ==
  IF parsed.err # ""
  THEN Pass("next", Ptr(Lit("X") \o Lit(tc.name) \o Lit(": argument parsing failed")),
            TRUE, st, <<>>, "failed")
  ELSE IF Blocked(userName, tc.name)
  THEN Pass("return", Nil, FALSE, st, <<>>, "blocked")
  ELSE IF tc.name \notin KnownTools
  THEN Pass("next", Nil, FALSE, st, <<>>, "failed")
  ELSE Handled(tc.name, Dispatch(tc.name, parsed.args, svc, openID, input, st, f))

Parsed(tc, parsed, userName, svc, openID, input, st, f) ==
  IF parsed.err # ""
  THEN Pass("next", Ptr(Lit("X") \o Lit(tc.name) \o Lit(": argument parsing failed")),
            TRUE, st, <<>>, "failed")
  ELSE IF Blocked(userName, tc.name)
  THEN Pass("return", Nil, FALSE, st, <<>>, "blocked")
  ELSE IF tc.name \notin KnownTools
  THEN Pass("next", Ptr(Lit("X") \o Lit("unknown operation: ") \o Lit(tc.name)),
            TRUE, st, <<>>, "failed")
  ELSE Handled(tc.name, Dispatch(tc.name, parsed.args, svc, openID, input, st, f))

LoopBody(tc, userName, svc, openID, input, st, f) ==
  IF tc.name = ""
  THEN Pass("next", Nil, FALSE, st, <<>>, "skipped")
  ELSE Parsed(tc, Unmarshal(tc.arguments), userName, svc, openID, input, st, f)

RECURSIVE JoinNewline(_)
JoinNewline(results) ==
  IF results = <<>> THEN <<>>
  ELSE Head(results) \o Lit("\n") \o JoinNewline(Tail(results))

RECURSIVE JoinBlankLine(_)
JoinBlankLine(results) ==
  IF Len(results) = 1 THEN Head(results)
  ELSE Head(results) \o Lit("\n\n") \o JoinBlankLine(Tail(results))

\* Variant: the banner is written whenever there are several results.
Aggregate_BannerWhenSeveral(results, hasError) ==
  IF Len(results) = 0
  THEN [out |-> Lit("unknown operation"), err |-> "no valid tool calls"]
  ELSE IF hasError \/ Len(results) > 1
  THEN [out |-> Banner \o JoinNewline(results), err |-> ""]
  ELSE [out |-> JoinBlankLine(results), err |-> ""]

\* Variant: a turn whose results are all failure lines fails as a whole.
Aggregate_FailWithoutSuccess(results, hasError) ==
  IF \A k \in DOMAIN results : Head(results[k]) = "X"
  THEN [out |-> Lit("unknown operation"), err |-> "no valid tool calls"]
  ELSE IF hasError
  THEN [out |-> Banner \o JoinNewline(results), err |-> ""]
  ELSE [out |-> JoinBlankLine(results), err |-> ""]

\* "Return combined results": the (response, err) pair Execute returns
\* after the loop.
Aggregate(results, hasError) ==
  IF Len(results) = 0
  THEN [out |-> Lit("unknown operation"), err |-> "no valid tool calls"]
  ELSE IF hasError
  THEN [out |-> Banner \o JoinNewline(results), err |-> ""]
  ELSE [out |-> JoinBlankLine(results), err |-> ""]

\* ---------------------------------------------------------------- handler
\* Variant: the unknown sender is turned away without a reply.
Ensure_Silent(g) ==
  IF g.err = ""
  THEN [userName |-> g.name, err |-> "", reply |-> Nil]
  ELSE [userName |-> "", err |-> "unknown user", reply |-> Nil]

\* ensureUser: the stored name, or the prompt as reply and an error.
Ensure(g) ==
  IF g.err = ""
  THEN [userName |-> g.name, err |-> "", reply |-> Nil]
  ELSE [userName |-> "", err |-> "unknown user", reply |-> Ptr(WhoAreYou)]

ensureUser(mappings, openID) == Ensure(GetUserName(mappings, openID))

\* processMessage after Execute: what ReplyMessage is given.
ReplyText(response, err) ==
  IF err # "" THEN Lit("AI processing failed: ") \o Lit(err) ELSE response

\* ---------------------------------------------------------------- intake
\* h.config.BotName
BotName == "LedgerBot"

\* A text of a chat message is the sequence of its pieces: mention keys,
\* blanks and words.
Blank == " "
Alice == "Alice"

\* One entry of message["mentions"] of the event: getString gives "" for a
\* field that is absent.
EventMention(name, key) == [name |-> name, key |-> key]

\* The message of an im.message.receive_v1 event.
EventMessage(chatType, text, mentions, threadID) ==
  [chatType |-> chatType, text |-> text, mentions |-> mentions,
   threadID |-> threadID]

ChatTypes == {"p2p", "group", "topic"}
ThreadIDs == {"", "omt_1"}

\* The current message: no mention, the bot mentioned, another participant
\* mentioned before the bot, only another participant mentioned.
Addressings ==
  { [text |-> <<"lunch 30">>, mentions |-> <<>>],
    [text |-> <<"@_user_1", Blank, "lunch 30">>,
     mentions |-> <<EventMention(BotName, "@_user_1")>>],
    [text |-> <<"@_user_1", Blank, "@_user_2", Blank, "lunch 30">>,
     mentions |-> <<EventMention(Alice, "@_user_1"),
                    EventMention(BotName, "@_user_2")>>],
    [text |-> <<"@_user_1", Blank, "lunch 30">>,
     mentions |-> <<EventMention(Alice, "@_user_1")>>] }

EventMessages ==
  { EventMessage(c, a.text, a.mentions, t) :
      c \in ChatTypes, a \in Addressings, t \in ThreadIDs }

\* larkim.Mention: Key and Name are pointers.
ThreadMention(name, key) == [name |-> name, key |-> key]

\* Body.Content of a thread message: absent, text that json.Unmarshal
\* rejects, or an object whose "text" is the given text (<<>> when it has
\* none).
NoContent == [json |-> "nil", text |-> <<>>]
BadContent == [json |-> "malformed", text |-> <<>>]
TextContent(text) == [json |-> "object", text |-> text]

\* larkim.Message, as far as the handler reads it.
ThreadMessage(senderType, deleted, body, mentions) ==
  [senderType |-> senderType, deleted |-> deleted, body |-> body,
   mentions |-> mentions]

ThreadMessages ==
  { ThreadMessage(Ptr("user"), FALSE,
                  TextContent(<<"@_user_1", Blank, "lunch 30">>),
                  <<ThreadMention(Ptr(BotName), Ptr("@_user_1"))>>),
    ThreadMessage(Ptr("app"), FALSE, TextContent(<<"recorded">>), <<>>),
    ThreadMessage(Ptr("user"), TRUE, TextContent(<<"taxi 20">>), <<>>),
    ThreadMessage(Ptr("user"), FALSE, BadContent, <<>>),
    ThreadMessage(Ptr("user"), FALSE, TextContent(<<>>), <<>>),
    ThreadMessage(Ptr("user"), FALSE,
                  TextContent(<<"@_user_1", Blank, "@_user_2", Blank, "tea 10">>),
                  <<ThreadMention(Ptr(Alice), Ptr("@_user_1")),
                    ThreadMention(Ptr(BotName), Ptr("@_user_2"))>>),
    ThreadMessage(Nil, FALSE,
                  TextContent(<<"@_user_1", Blank, "rent 900">>),
                  <<ThreadMention(Ptr(Alice), Ptr("@_user_1"))>>),
    ThreadMessage(Ptr("user"), FALSE, NoContent,
                  <<ThreadMention(Ptr(BotName), Nil)>>) }

\* A call of ListMessagesByThread: items are the messages of the thread,
\* oldest first; the call returns them, or it fails with err.
Listing(err, items) == [err |-> err, items |-> items]
Listings ==
  {Listing("list thread messages failed", items) :
     items \in SeqsOf(ThreadMessages, 1, 1)}
  \cup {Listing("", items) : items \in SeqsOf(ThreadMessages, 0, MaxThread)}

\* The answers of the model in the turns that follow an intake.
IntakeResponses ==
  {Response("error", "", <<>>), Response("message", "hello", <<>>)}

\* strings.Contains(text, key), for a key that is one piece
StringsContains(text, key) == \E k \in DOMAIN text : text[k] = key

\* strings.Replace(text, key, "", 1)
FirstIndex(text, key) ==
  CHOOSE k \in DOMAIN text : text[k] = key /\ \A j \in 1..(k - 1) : text[j] # key
ReplaceFirst(text, key) ==
  IF StringsContains(text, key)
  THEN SubSeq(text, 1, FirstIndex(text, key) - 1)
         \o SubSeq(text, FirstIndex(text, key) + 1, Len(text))
  ELSE text

\* strings.TrimSpace
RECURSIVE TrimLeft(_)
TrimLeft(text) ==
  IF text # <<>> /\ Head(text) = Blank THEN TrimLeft(Tail(text)) ELSE text

RECURSIVE TrimRight(_)
TrimRight(text) ==
  IF text # <<>> /\ text[Len(text)] = Blank
  THEN TrimRight(SubSeq(text, 1, Len(text) - 1))
  ELSE text

TrimSpace(text) == TrimRight(TrimLeft(text))

\* The loop of checkAndStripMention: the first mention that carries the
\* bot's name decides.
RECURSIVE checkAndStripMention(_, _, _)
checkAndStripMention(text, mentions, botName) ==
  IF mentions = <<>>
  THEN [mentioned |-> FALSE, text |-> text]
  ELSE IF Head(mentions).name = botName
  THEN [mentioned |-> TRUE,
        text |-> IF Head(mentions).key # ""
                      /\ StringsContains(text, Head(mentions).key)
                 THEN TrimSpace(ReplaceFirst(text, Head(mentions).key))
                 ELSE text]
  ELSE checkAndStripMention(text, Tail(mentions), botName)

messageMentionsBot(msg, botName) ==
  \E k \in DOMAIN msg.mentions :
    /\ msg.mentions[k].name # Nil
    /\ msg.mentions[k].name[1] = botName

firstMessageMentionsBot(messages, botName) ==
  IF Len(messages) = 0 THEN FALSE ELSE messageMentionsBot(messages[1], botName)

\* "for _, mention := range msg.Mentions": the first mention whose key is in
\* the text has its key taken out, and the loop breaks.
RECURSIVE StripMention(_, _)
StripMention(text, mentions) ==
  IF mentions = <<>> THEN text
  ELSE IF Head(mentions).key # Nil /\ StringsContains(text, Head(mentions).key[1])
  THEN TrimSpace(ReplaceFirst(text, Head(mentions).key[1]))
  ELSE StripMention(text, Tail(mentions))

\* domain.AIMessage
AIMessage(role, content) == [role |-> role, content |-> content]

\* Variant: a deleted message is kept.
PassedOver_KeepsDeleted(msg) ==
  \/ msg.body.json # "object"
  \/ msg.body.text = <<>>

\* The "continue"s of buildAIHistoryFromThread.
PassedOver(msg) ==
  \/ msg.deleted
  \/ msg.body.json # "object"
  \/ msg.body.text = <<>>

RoleOf(msg) == IF msg.senderType = Ptr("app") THEN "assistant" ELSE "user"

HistoryText(msg, botName) ==
  IF messageMentionsBot(msg, botName)
  THEN StripMention(msg.body.text, msg.mentions)
  ELSE msg.body.text

RECURSIVE buildAIHistoryFromThread(_, _)
buildAIHistoryFromThread(messages, botName) ==
  IF messages = <<>> THEN <<>>
  ELSE IF PassedOver(Head(messages))
  THEN buildAIHistoryFromThread(Tail(messages), botName)
  ELSE <<AIMessage(RoleOf(Head(messages)), HistoryText(Head(messages), botName))>>
         \o buildAIHistoryFromThread(Tail(messages), botName)

\* "if threadID != "" { threadMessages, err := ListMessagesByThread(...) ...":
\* what the handler has of the thread.
Loaded(listed, firstMentioned, history) ==
  [listed |-> listed, firstMentioned |-> firstMentioned, history |-> history]

LoadThread(threadID, listing, botName) ==
  IF threadID = "" THEN Loaded("none", FALSE, <<>>)
  ELSE IF listing.err # "" THEN Loaded("failed", FALSE, <<>>)
  ELSE Loaded("ok", firstMessageMentionsBot(listing.items, botName),
              buildAIHistoryFromThread(listing.items, botName))

\* Variant: only a mention in the message itself counts.
Addressed_CurrentOnly(mentioned, firstMentioned) == mentioned

\* "if !mentioned && !firstMentioned { ... return }"
Addressed(mentioned, firstMentioned) == mentioned \/ firstMentioned

\* "if len(historyMsgs) > 0 && historyMsgs[len(historyMsgs)-1].Role != "assistant""
SyncLast(history, text) ==
  IF Len(history) > 0 /\ history[Len(history)].role # "assistant"
  THEN [history EXCEPT ![Len(history)].content = text]
  ELSE history

\* The handler's locals when it returns: what it decided and what it hands
\* to processMessage; items are the messages of the thread the message is in.
Intake(message, listed, items, mentioned, firstMentioned, text, built, queued) ==
  [message |-> message, listed |-> listed, items |-> items,
   mentioned |-> mentioned, firstMentioned |-> firstMentioned, text |-> text,
   built |-> built, history |-> SyncLast(built, text), queued |-> queued]

NoIntake ==
  Intake(EventMessage("", <<>>, <<>>, ""), "none", <<>>, FALSE, FALSE, <<>>,
         <<>>, FALSE)

GroupTypes == {"group", "pgroup", "sgroup"}

InGroup(message, c, l, items) ==
  Intake(message, l.listed, IF message.threadID # "" THEN items ELSE <<>>,
         c.mentioned, l.firstMentioned, c.text, l.history,
         Addressed(c.mentioned, l.firstMentioned))

\* "switch chatType"
Switch(message, listing, botName) ==
  IF message.chatType \in GroupTypes
  THEN InGroup(message,
               checkAndStripMention(message.text, message.mentions, botName),
               LoadThread(message.threadID, listing, botName), listing.items)
  ELSE Intake(message, "none", <<>>, FALSE, FALSE, message.text, <<>>, TRUE)

\* Execute, "2. Build messages": what follows the system prompt.
ChatRole(role) == IF role \in {"system", "assistant"} THEN role ELSE "user"

\* Variant: the current input is never added.
ModelInput_HistoryOnly(history, input) ==
  [k \in DOMAIN history |-> AIMessage(ChatRole(history[k].role), history[k].content)]

ModelInput(history, input) ==
  IF Len(history) > 0
  THEN [k \in DOMAIN history |-> AIMessage(ChatRole(history[k].role), history[k].content)]
  ELSE <<AIMessage("user", input)>>

\* ---------------------------------------------------------------- queries
\* A call of handleQueryTransactions: its arguments, the window it resolved
\* (startTime, endTime, err) and what it gave back.
Asked(args, window, out, err, log) ==
  [args |-> args, window |-> window, out |-> out, err |-> err, log |-> log]

NoQuery == Asked(<<>>, TimeRange(ZeroTime, ZeroTime, ""), <<>>, "", <<>>)

\* The arguments of the queries by a preset, and by a name that is none.
PresetArgs ==
  {[time_range_type |-> S(t)] : t \in (TimeRangeTypes \ {"custom"}) \cup {"sometime"}}

\* The arguments of the queries of a ledger: presets, custom windows with
\* every pair of bounds, with and without top_n.
WindowArgs ==
  {[time_range_type |-> S(t)] : t \in {"today", "last_7_days", "this_month"}}
  \cup {[time_range_type |-> S("custom")], [start_time |-> S("2024-12-01")]}
  \cup {[time_range_type |-> S("custom"), start_time |-> S(s), end_time |-> S(e)] :
          s \in TimeStrings, e \in TimeStrings}

WithTopN(args) ==
  {args,
   [k \in DOMAIN args \cup {"top_n"} |-> IF k = "top_n" THEN N(2) ELSE args[k]],
   [k \in DOMAIN args \cup {"top_n"} |-> IF k = "top_n" THEN S("3") ELSE args[k]]}

QueryArgs == UNION {WithTopN(args) : args \in WindowArgs}

\* The ledger after n record_transaction calls of earlier days, one of them
\* by another user.
SampleBill(k, now) ==
  Bill("b" \o ToString(k), ((k * 37) % 50) + 10,
       IF k % 3 = 0 THEN "income" ELSE "expense", "food", now - ((k * 3) % 10),
       IF k = 2 THEN "Li" ELSE "Zhang", "", "")

SampleLedger(n, now) == [id \in {RecID(k) : k \in 1..n} |->
                           SampleBill(CHOOSE k \in 1..n : RecID(k) = id, now)]

\* Days of December 2024.
QueryDays == {709, 714}

\* ---------------------------------------------------------------- updates side by side
\* A call of handleUpdateTransaction by one processMessage: at is the
\* statement it stands before, originalMsg and bill are its locals (the
\* combined message; the bill the use case fetched, with the updates
\* applied), out and err what it returned.
UpdateCall(at, args, input, originalMsg, bill, out, err) ==
  [at |-> at, args |-> args, input |-> input, originalMsg |-> originalMsg,
   bill |-> bill, out |-> out, err |-> err]

NoUpdate == UpdateCall("idle", <<>>, "", Nil, NoBill, <<>>, "")

\* What the sender of each message said.
Utterance(g) == IF g = "g1" THEN "make it 45" ELSE "it was dinner"

\* The arguments of the updates: a new amount, a new description, a new
\* category, and an update of a record the ledger does not hold.
UpdateArgs ==
  { [record_id |-> S(RecID(1)), amount |-> N(45)],
    [record_id |-> S(RecID(1)), description |-> S("dinner")],
    [record_id |-> S(RecID(1)), category |-> S("meal")],
    [record_id |-> S(RecID(2)), amount |-> N(45)] }

\* The ledger the updates start from: one record of the sender.
StartLedger ==
  [id \in {RecID(1)} |->
     Bill("lunch", 30, "expense", "food", 0, "Zhang", "lunch 30", "")]

\* ---------------------------------------------------------------- cache
\* The goroutines that use the cache: two callers and the cleanup routine
\* started by NewUserMappingCache.
Callers == {"g1", "g2"}
CacheGoroutines == Callers \cup {"cleanup"}
CacheKeys == {"k"}

\* The call a goroutine is in: at is the statement it stands before.
CacheCall(op, at, key) == [op |-> op, at |-> at, key |-> key]
NoCacheCall == CacheCall("", "idle", "")

\* c.items maps a key to its item; of the item the model keeps ExpiredAt.
\* The cache file held one item when load() read it, which expires at 0.
LoadedItems == [k \in CacheKeys |-> 0]

\* NewUserMappingCache: the items loaded, the mutex free, cleanup started.
\* died is set when the Go runtime has ended the process (fatal error:
\* concurrent map writes), torn when two writes of the file ran together.
NewUserMappingCache ==
  [items |-> LoadedItems, file |-> LoadedItems,
   mu |-> [writer |-> "", readers |-> {}],
   calls |-> [g \in CacheGoroutines |-> NoCacheCall],
   now |-> 0, begun |-> 0, died |-> FALSE, torn |-> FALSE]

\* time.Now().After(item.ExpiredAt)
Expired(c, key) == c.now > c.items[key]

\* The statements that read or write c.items or write the file; a goroutine
\* that stands before one is past its lock call.
MapWrites == {"delete", "store", "remove", "reset", "sweep"}
MapAccesses == MapWrites \cup {"lookup", "check", "save"}

\* Another goroutine is at a statement that uses the map while g writes it;
\* another goroutine is writing the file while g writes it.
MapRace(c, g) ==
  \E h \in CacheGoroutines \ {g} : c.calls[h].at \in MapAccesses
FileRace(c, g) ==
  \E h \in CacheGoroutines \ {g} : c.calls[h].at = "save"

\* What a write of the map by g may do to the process: with a concurrent
\* use of the map the runtime may detect it and end the process, or not.
MayDie(c, g) == IF MapRace(c, g) THEN {TRUE, FALSE} ELSE {FALSE}
MayTear(c, g) == IF FileRace(c, g) THEN {TRUE, FALSE} ELSE {FALSE}

\* ---------------------------------------------------------------- state
VARIABLES
  st,        \* the stores: ledger, nextRec, mappings, file
  pc,        \* where the turn is: idle, ensure, model, exec, ret, done (replied),
             \* skipped (the message is not processed)
  turn,      \* the turn's locals: sender, utterance, name, response, loop state
  replies,   \* the strings given to ReplyMessage for the current message
  trace,     \* the store calls of the current turn: [i, op]
  outcomes,  \* what became of each tool call the loop has passed:
             \* [i, status, changed], changed when the pass changed a store
  pre,       \* the stores when the current turn began
  turns,     \* messages accepted so far
  mu,        \* userMappingRepository.mu: the writer holding it, the readers
  calls,     \* the call of the user mapping repository each goroutine is in
  returned,  \* the calls that have returned, in the order they let go of mu
  intake,    \* the last chat message handled and what the handler made of it
  query,     \* the query_transactions call answered last: its arguments, the
             \* window resolved, the answer
  updating,  \* the update_transaction call each goroutine is in
  cache      \* userMappingCache: items, file, mu, the call each goroutine is
             \* in, the clock, and whether the process has died

vars == <<st, pc, turn, replies, trace, outcomes, pre, turns, mu, calls, returned,
         intake, query, updating, cache>>
turnVars == <<pc, turn, replies, trace, outcomes, pre, turns>>
storeVars == <<mu, calls, returned>>
restVars == <<intake, query, updating, cache>>

EmptyMap == [x \in {} |-> ""]

\* The goroutines (one processMessage each) that call the user mapping
\* repository side by side, and the call a goroutine is in: at is the
\* statement it stands before.
Goroutines == {"g1", "g2"}
StoreCall(op, at, openID, userName, err) ==
  [op |-> op, at |-> at, openID |-> openID, userName |-> userName, err |-> err]
NoCall == StoreCall("", "idle", "", "", "")

Turn(openID, input, userName, resp) ==
  [openID |-> openID, input |-> input, userName |-> userName, resp |-> resp,
   i |-> 1, results |-> <<>>, hasError |-> FALSE, out |-> <<>>, err |-> "",
   history |-> <<>>, msgs |-> <<>>]

NoTurn == Turn("", "", "", Response("error", "", <<>>))

\* The mapping file the process starts from, as load() reads it: one sender
\* has a name, the other has none.
StartMappings == {[x \in {"ou_a"} |-> "Zhang"]}

\* What is there besides the stores when the process has started.
Started ==
  /\ pc = "idle"
  /\ turn = NoTurn
  /\ replies = <<>>
  /\ trace = <<>>
  /\ outcomes = <<>>
  /\ pre = st
  /\ turns = 0
  /\ mu = [writer |-> "", readers |-> {}]
  /\ calls = [g \in Goroutines |-> NoCall]
  /\ returned = <<>>
  /\ intake = NoIntake
  /\ query = NoQuery
  /\ updating = [g \in Goroutines |-> NoUpdate]
  /\ cache = NewUserMappingCache

Init ==
  /\ \E m \in StartMappings : st = Store(EmptyMap, 1, m, m, 0)
  /\ Started

\* handleIMMessage, direct chat: the message is handed to a new
\* processMessage.  resp is what the model will answer in this turn.
handleIMMessage(openID, text, resp) ==
  /\ pc = "idle"
  /\ turns < MaxTurns
  /\ pc' = "ensure"
  /\ turn' = Turn(openID, text, "", resp)
  /\ replies' = <<>>
  /\ trace' = <<>>
  /\ outcomes' = <<>>
  /\ st' = [st EXCEPT !.now = @ + 1]
  /\ pre' = st'
  /\ turns' = turns + 1
  /\ UNCHANGED <<storeVars, restVars>>

Ensured(e) ==
  IF e.err # ""
  THEN /\ replies' = replies \o e.reply
       /\ pc' = "done"
       /\ UNCHANGED turn
  ELSE /\ turn' = [turn EXCEPT !.userName = e.userName]
       /\ pc' = "model"
       /\ UNCHANGED replies

\* processMessage up to the call of Execute
EnsureUser ==
  /\ pc = "ensure"
  /\ \E e \in {ensureUser(st.mappings, turn.openID)} : Ensured(e)
  /\ UNCHANGED <<st, trace, outcomes, pre, turns>>
  /\ UNCHANGED <<storeVars, restVars>>

\* The name a caller has for the sender: the stored one, or "" when none is.
NameOrEmpty(mappings, openID) == GetUserName(mappings, openID).name

\* Execute called by a client of domain.AIService that passes every sender
\* on, the ones without a stored name with userName "".
CallExecute(openID, text, resp) ==
  /\ pc = "idle"
  /\ turns < MaxTurns
  /\ pc' = "model"
  /\ turn' = Turn(openID, text, NameOrEmpty(st.mappings, openID), resp)
  /\ replies' = <<>>
  /\ trace' = <<>>
  /\ outcomes' = <<>>
  /\ st' = [st EXCEPT !.now = @ + 1]
  /\ pre' = st'
  /\ turns' = turns + 1
  /\ UNCHANGED <<storeVars, restVars>>

\* Variant: a reply without text is replaced by the apology.
NoToolCall_Apology(msg) ==
  [out |-> IF msg.content = "" THEN CannotUnderstand ELSE Lit(msg.content), err |-> ""]

\* "if len(msg.ToolCalls) == 0 { return msg.Content, nil }"
NoToolCall(msg) == [out |-> Lit(msg.content), err |-> ""]

\* Execute from the request to "No tool call: return assistant reply directly"
CallModel ==
  /\ pc = "model"
  /\ LET r == turn.resp
     IN CASE r.kind = "error" ->
               /\ turn' = [turn EXCEPT !.out = CannotUnderstand,
                                        !.err = "context deadline exceeded",
                                        !.msgs = ModelInput(turn.history, turn.input)]
               /\ pc' = "ret"
          [] r.kind = "empty" ->
               /\ turn' = [turn EXCEPT !.out = NoValidAIResponse, !.err = "empty choices",
                                        !.msgs = ModelInput(turn.history, turn.input)]
               /\ pc' = "ret"
          [] r.kind = "message" /\ Len(r.toolCalls) = 0 ->
               /\ turn' = [turn EXCEPT !.out = NoToolCall(r).out,
                                        !.err = NoToolCall(r).err,
                                        !.msgs = ModelInput(turn.history, turn.input)]
               /\ pc' = "ret"
          [] r.kind = "message" /\ Len(r.toolCalls) > 0 ->
               /\ pc' = "exec"
               /\ turn' = [turn EXCEPT !.msgs = ModelInput(turn.history, turn.input)]
  /\ UNCHANGED <<st, replies, trace, outcomes, pre, turns>>
  /\ UNCHANGED <<storeVars, restVars>>

RECURSIVE Tagged(_, _)
Tagged(i, log) ==
  IF log = <<>> THEN <<>>
  ELSE <<[i |-> i, op |-> Head(log)]>> \o Tagged(i, Tail(log))

\* Variant: a failed tool call puts the stores back to the start of the turn.
Passed_Rollback(p) ==
  /\ st' = IF p.failed THEN pre ELSE p.st
  /\ trace' = trace \o Tagged(turn.i, p.log)
  /\ outcomes' = Append(outcomes, [i |-> turn.i, status |-> p.status,
                                    changed |-> p.st # st])
  /\ IF p.ctl = "return"
     THEN /\ turn' = [turn EXCEPT !.out = WhoAreYou, !.err = ""]
          /\ pc' = "ret"
     ELSE /\ turn' = [turn EXCEPT !.i = @ + 1,
                                  !.results = IF p.line = Nil THEN @ ELSE Append(@, p.line[1]),
                                  !.hasError = @ \/ p.failed]
          /\ pc' = "exec"

\* Variant: the loop ends at the first failed tool call.
Passed_StopAtFailure(p) ==
  /\ st' = p.st
  /\ trace' = trace \o Tagged(turn.i, p.log)
  /\ outcomes' = Append(outcomes, [i |-> turn.i, status |-> p.status,
                                    changed |-> p.st # st])
  /\ IF p.ctl = "return"
     THEN /\ turn' = [turn EXCEPT !.out = WhoAreYou, !.err = ""]
          /\ pc' = "ret"
     ELSE /\ turn' = [turn EXCEPT !.i = IF p.failed
                                         THEN Len(turn.resp.toolCalls) + 1
                                         ELSE @ + 1,
                                  !.results = IF p.line = Nil THEN @ ELSE Append(@, p.line[1]),
                                  !.hasError = @ \/ p.failed]
          /\ pc' = "exec"

\* What one pass of the loop leaves behind.
Passed(p) ==
  /\ st' = p.st
  /\ trace' = trace \o Tagged(turn.i, p.log)
  /\ outcomes' = Append(outcomes, [i |-> turn.i, status |-> p.status,
                                    changed |-> p.st # st])
  /\ IF p.ctl = "return"
     THEN /\ turn' = [turn EXCEPT !.out = WhoAreYou, !.err = ""]
          /\ pc' = "ret"
     ELSE /\ turn' = [turn EXCEPT !.i = @ + 1,
                                  !.results = IF p.line = Nil THEN @ ELSE Append(@, p.line[1]),
                                  !.hasError = @ \/ p.failed]
          /\ pc' = "exec"

\* One tool call of the loop.
ExecStep ==
  /\ pc = "exec"
  /\ turn.i <= Len(turn.resp.toolCalls)
  /\ \E f \in FaultsOf(turn.resp.toolCalls[turn.i].name) :
       \E p \in {LoopBody(turn.resp.toolCalls[turn.i], turn.userName,
                           BillService(turn.openID, turn.userName, turn.input),
                           turn.openID, turn.input, st, f)} :
         Passed(p)
  /\ UNCHANGED <<replies, pre, turns>>
  /\ UNCHANGED <<storeVars, restVars>>

\* The loop is over: Execute returns the combined results.
Combine ==
  /\ pc = "exec"
  /\ turn.i > Len(turn.resp.toolCalls)
  /\ \E a \in {Aggregate(turn.results, turn.hasError)} :
       turn' = [turn EXCEPT !.out = a.out, !.err = a.err]
  /\ pc' = "ret"
  /\ UNCHANGED <<st, replies, trace, outcomes, pre, turns>>
  /\ UNCHANGED <<storeVars, restVars>>

\* processMessage after Execute returned: one ReplyMessage.
Reply ==
  /\ pc = "ret"
  /\ replies' = Append(replies, ReplyText(turn.out, turn.err))
  /\ pc' = "done"
  /\ UNCHANGED <<st, turn, trace, outcomes, pre, turns>>
  /\ UNCHANGED <<storeVars, restVars>>

\* Execute returns to its caller.
Return ==
  /\ pc = "ret"
  /\ pc' = "done"
  /\ UNCHANGED <<st, turn, replies, trace, outcomes, pre, turns>>
  /\ UNCHANGED <<storeVars, restVars>>

\* processMessage (or the caller of Execute) returns, or the handler has
\* answered a message it does not process: the locals are gone, the stores
\* stay.
Finish ==
  /\ pc \in {"done", "skipped"}
  /\ pc' = "idle"
  /\ turn' = NoTurn
  /\ replies' = <<>>
  /\ trace' = <<>>
  /\ outcomes' = <<>>
  /\ pre' = st
  /\ intake' = NoIntake
  /\ UNCHANGED <<st, turns>>
  /\ UNCHANGED <<storeVars, query, updating, cache>>

Accept == \E openID \in Senders, text \in Texts, resp \in Responses :
            handleIMMessage(openID, text, resp)

Call == \E openID \in Senders, text \in Texts, resp \in Responses :
          CallExecute(openID, text, resp)

\* The program: messages are handled one turn after another.
Next == Accept \/ EnsureUser \/ CallModel \/ ExecStep \/ Combine \/ Reply \/ Finish

Spec == Init /\ [][Next]_vars

\* Execute as a component, under any caller.
NextExecute == Call \/ CallModel \/ ExecStep \/ Combine \/ Return \/ Finish

SpecExecute == Init /\ [][NextExecute]_vars

\* The turns of senders whose messages the model answers with ledger calls.
AcceptLedger == \E openID \in Senders, text \in Texts, resp \in LedgerResponses :
                  handleIMMessage(openID, text, resp)

NextLedger ==
  AcceptLedger \/ EnsureUser \/ CallModel \/ ExecStep \/ Combine \/ Reply \/ Finish

SpecLedger == Init /\ [][NextLedger]_vars

\* handleIMMessage, any chat: r is what the handler has when it returns.  A
\* message that is not addressed gets "success" and nothing else happens; an
\* addressed one is handed to a new processMessage with its history.
Queued(openID, r, resp) ==
  /\ intake' = r
  /\ IF r.queued
     THEN /\ pc' = "ensure"
          /\ turn' = [Turn(openID, r.text, "", resp) EXCEPT !.history = r.history]
          /\ replies' = <<>>
          /\ trace' = <<>>
          /\ outcomes' = <<>>
          /\ st' = [st EXCEPT !.now = @ + 1]
          /\ pre' = st'
          /\ turns' = turns + 1
     ELSE /\ pc' = "skipped"
          /\ UNCHANGED <<st, turn, replies, trace, outcomes, pre, turns>>

handleChatMessage(openID, message, listing, resp) ==
  /\ pc = "idle"
  /\ turns < MaxTurns
  /\ \E r \in {Switch(message, listing, BotName)} : Queued(openID, r, resp)
  /\ UNCHANGED <<storeVars, query, updating, cache>>

\* The thread is listed for a group message that has a thread id.
ListingsOf(message) ==
  IF message.chatType \in GroupTypes /\ message.threadID # ""
  THEN Listings
  ELSE {Listing("", <<>>)}

AcceptChat ==
  \E openID \in Senders, message \in EventMessages, resp \in IntakeResponses :
    \E listing \in ListingsOf(message) :
      handleChatMessage(openID, message, listing, resp)

NextIntake == AcceptChat \/ EnsureUser \/ CallModel \/ Reply \/ Finish

SpecIntake == Init /\ [][NextIntake]_vars

\* handleQueryTransactions, called for the user Zhang.
Answered(args, h) ==
  query' = Asked(args,
                 IF getString(args, "time_range_type") = ""
                 THEN TimeRange(ZeroTime, ZeroTime, "")
                 ELSE QueryWindow(getString(args, "time_range_type"), args,
                                  ClockAt(st.now)),
                 h.out, h.err, h.log)

Query(args, f) ==
  /\ pc = "idle"
  /\ query = NoQuery
  /\ \E h \in {handleQueryTransactions(args, BillService("ou_a", "Zhang", ""), st, f)} :
       Answered(args, h)
  /\ UNCHANGED <<st, turnVars, storeVars, intake, updating, cache>>

\* Every preset on every day of the clock.
InitRange ==
  /\ \E m \in StartMappings, now \in 0..MaxDay : st = Store(EmptyMap, 1, m, m, now)
  /\ Started

QueryPreset == \E args \in PresetArgs : Query(args, "none")

SpecRange == InitRange /\ [][QueryPreset]_vars

\* Queries of a ledger that has records.
InitQuery ==
  /\ \E m \in StartMappings, now \in QueryDays, n \in 0..MaxBills :
       st = Store(SampleLedger(n, now), n + 1, m, m, now)
  /\ Started

QueryLedger ==
  \E args \in QueryArgs, f \in FaultsOf("query_transactions") : Query(args, f)

SpecQuery == InitQuery /\ [][QueryLedger]_vars

\* processMessage runs in its own goroutine and every call it makes returns
\* (the model call within its 30 s timeout): a turn that has begun goes on.
TurnStep == EnsureUser \/ CallModel \/ ExecStep \/ Combine \/ Reply

FairSpec == Spec /\ WF_vars(TurnStep)

\* ---------------------------------------------------------------- goroutines
\* userMappingRepository under goroutines that call it side by side, one
\* statement at a time.  mu is a sync.RWMutex: Lock waits for the writer and
\* the readers to be gone, RLock for the writer.
SetNames == Names \cup {" "}
Begun == Len(returned) + Cardinality({g \in Goroutines : calls[g].at # "idle"})

\* A goroutine calls SetUserName(openID, userName).
BeginSet(g, openID, userName) ==
  /\ calls[g].at = "idle"
  /\ Begun < MaxOps
  /\ calls' = [calls EXCEPT ![g] = StoreCall("SetUserName", "Lock", openID, userName, "")]
  /\ UNCHANGED <<st, mu, returned>>
  /\ UNCHANGED <<turnVars, restVars>>

\* A goroutine calls GetUserName(openID).
BeginGet(g, openID) ==
  /\ calls[g].at = "idle"
  /\ Begun < MaxOps
  /\ calls' = [calls EXCEPT ![g] = StoreCall("GetUserName", "RLock", openID, "", "")]
  /\ UNCHANGED <<st, mu, returned>>
  /\ UNCHANGED <<turnVars, restVars>>

\* r.mu.Lock()
Lock(g) ==
  /\ calls[g].at = "Lock"
  /\ mu.writer = "" /\ mu.readers = {}
  /\ mu' = [mu EXCEPT !.writer = g]
  /\ calls' = [calls EXCEPT ![g].at = "validate"]
  /\ UNCHANGED <<st, returned>>
  /\ UNCHANGED <<turnVars, restVars>>

\* "if userName == "" || strings.TrimSpace(userName) == "" { return error }"
Validate(g) ==
  /\ calls[g].at = "validate"
  /\ calls' = IF IsBlank(calls[g].userName)
              THEN [calls EXCEPT ![g].at = "Unlock",
                                 ![g].err = "user name cannot be empty"]
              ELSE [calls EXCEPT ![g].at = "assign"]
  /\ UNCHANGED <<st, mu, returned>>
  /\ UNCHANGED <<turnVars, restVars>>

\* r.mappings[openID] = userName
Assign(g) ==
  /\ calls[g].at = "assign"
  /\ st' = [st EXCEPT !.mappings = Put(st.mappings, calls[g].openID, calls[g].userName)]
  /\ calls' = [calls EXCEPT ![g].at = "save"]
  /\ UNCHANGED <<mu, returned>>
  /\ UNCHANGED <<turnVars, restVars>>

\* return r.save()
Save(g) ==
  /\ calls[g].at = "save"
  /\ \E f \in FaultsOf("rename_user") :
       \E w \in {save(st, f)} :
         /\ st' = w.st
         /\ calls' = [calls EXCEPT ![g].at = "Unlock", ![g].err = w.err]
  /\ UNCHANGED <<mu, returned>>
  /\ UNCHANGED <<turnVars, restVars>>

\* defer r.mu.Unlock(): SetUserName returns.
Unlock(g) ==
  /\ calls[g].at = "Unlock"
  /\ mu' = [mu EXCEPT !.writer = ""]
  /\ returned' = Append(returned, calls[g])
  /\ calls' = [calls EXCEPT ![g] = NoCall]
  /\ UNCHANGED st
  /\ UNCHANGED <<turnVars, restVars>>

\* r.mu.RLock()
RLock(g) ==
  /\ calls[g].at = "RLock"
  /\ mu.writer = ""
  /\ mu' = [mu EXCEPT !.readers = @ \cup {g}]
  /\ calls' = [calls EXCEPT ![g].at = "read"]
  /\ UNCHANGED <<st, returned>>
  /\ UNCHANGED <<turnVars, restVars>>

\* The body of GetUserName: the name read and the error.
Read(g) ==
  /\ calls[g].at = "read"
  /\ \E r \in {GetUserName(st.mappings, calls[g].openID)} :
       calls' = [calls EXCEPT ![g].at = "RUnlock", ![g].userName = r.name,
                              ![g].err = r.err]
  /\ UNCHANGED <<st, mu, returned>>
  /\ UNCHANGED <<turnVars, restVars>>

\* defer r.mu.RUnlock(): GetUserName returns.
RUnlock(g) ==
  /\ calls[g].at = "RUnlock"
  /\ mu' = [mu EXCEPT !.readers = @ \ {g}]
  /\ returned' = Append(returned, calls[g])
  /\ calls' = [calls EXCEPT ![g] = NoCall]
  /\ UNCHANGED st
  /\ UNCHANGED <<turnVars, restVars>>

SetCalled == \E g \in Goroutines, openID \in Senders, userName \in SetNames :
               BeginSet(g, openID, userName)
GetCalled == \E g \in Goroutines, openID \in Senders : BeginGet(g, openID)
Locked == \E g \in Goroutines : Lock(g)
Validated == \E g \in Goroutines : Validate(g)
Assigned == \E g \in Goroutines : Assign(g)
Saved == \E g \in Goroutines : Save(g)
Unlocked == \E g \in Goroutines : Unlock(g)
RLocked == \E g \in Goroutines : RLock(g)
WasRead == \E g \in Goroutines : Read(g)
RUnlocked == \E g \in Goroutines : RUnlock(g)

NextStore ==
  \/ SetCalled \/ GetCalled \/ Locked \/ Validated \/ Assigned \/ Saved
  \/ Unlocked \/ RLocked \/ WasRead \/ RUnlocked

SpecStore == Init /\ [][NextStore]_vars

\* ---------------------------------------------------------------- updates, step by step
\* Two messages are handled side by side ("go h.processMessage"), and each
\* turn's model response asks for one update_transaction.  The handler, the
\* bill service and the use case hold no lock: between the calls of the
\* repository the other goroutine may run.
RecordOf(u) == getString(u.args, "record_id")

\* BillService.UpdateBill: "updates := make(map[string]interface{}) ..."
UpdatesOf(u) ==
  [description |-> PtrIfSet(getString(u.args, "description")),
   amount |-> PtrIfPositive(getFloat64(u.args, "amount")),
   type |-> PtrIfType(getString(u.args, "type")),
   category |-> PtrIfSet(getString(u.args, "category")),
   original_message |-> u.originalMsg]

\* Execute reaches handleUpdateTransaction with the arguments of the call.
BeginUpdate(g, args) ==
  /\ updating[g].at = "idle"
  /\ updating' = [updating EXCEPT
                    ![g] = UpdateCall("GetBill", args, Utterance(g), Nil, NoBill, <<>>, "")]
  /\ UNCHANGED <<st, turnVars, storeVars, intake, query, cache>>

\* "originalBill, err := svc.billUseCase.GetBill(recordID)" and the
\* combined message
Combining(g, got) ==
  updating' = [updating EXCEPT
                 ![g].at = "UpdateBill",
                 ![g].originalMsg = CombinedMsg(updating[g].args, got, updating[g].input)]

GetOriginal(g) ==
  /\ updating[g].at = "GetBill"
  /\ \E got \in {RepoGetBill(st, RecordOf(updating[g]), FALSE)} : Combining(g, got)
  /\ UNCHANGED <<st, turnVars, storeVars, intake, query, cache>>

\* BillUseCaseImpl.UpdateBill: "bill, err := u.billRepo.GetBill(id)" and
\* "Apply updates"
Applying(g, got) ==
  updating' =
    IF got.err # ""
    THEN [updating EXCEPT ![g].at = "done", ![g].out = Lit("update failed"),
                          ![g].err = got.err]
    ELSE [updating EXCEPT ![g].at = "write",
                          ![g].bill = ApplyUpdates(got.bill, UpdatesOf(updating[g]))]

FetchBill(g) ==
  /\ updating[g].at = "UpdateBill"
  /\ \E got \in {RepoGetBill(st, RecordOf(updating[g]), FALSE)} : Applying(g, got)
  /\ UNCHANGED <<st, turnVars, storeVars, intake, query, cache>>

\* "u.billRepo.UpdateBill(bill)" and the way back to the handler's reply
Returning(g, r) ==
  /\ st' = r.st
  /\ updating' = [updating EXCEPT ![g].at = "done", ![g].out = r.out, ![g].err = r.err]

WriteBill(g) ==
  /\ updating[g].at = "write"
  /\ \E r \in {UpdateResult(WithRecordID(WriteBack(st, RecordOf(updating[g]),
                                                    updating[g].bill, "none"),
                                          RecordOf(updating[g])),
                             st)} :
       Returning(g, r)
  /\ UNCHANGED <<turnVars, storeVars, intake, query, cache>>

InitUpdate ==
  /\ \E m \in StartMappings : st = Store(StartLedger, 2, m, m, 0)
  /\ Started

UpdateCalled == \E g \in Goroutines, args \in UpdateArgs : BeginUpdate(g, args)
OriginalFetched == \E g \in Goroutines : GetOriginal(g)
BillFetched == \E g \in Goroutines : FetchBill(g)
BillWritten == \E g \in Goroutines : WriteBill(g)

NextUpdate == UpdateCalled \/ OriginalFetched \/ BillFetched \/ BillWritten

SpecUpdate == InitUpdate /\ [][NextUpdate]_vars

\* ---------------------------------------------------------------- records of another user
\* The turns of a sender whose ledger table also holds a record of another
\* user, made on the day of the first message.
OthersLedger ==
  [id \in {RecID(1)} |-> Bill("tea", 10, "expense", "food", 1, "Li", "tea 10", "")]

InitOwners ==
  /\ \E m \in StartMappings : st = Store(OthersLedger, 2, m, m, 0)
  /\ Started

SpecOwners == InitOwners /\ [][Next]_vars

\* ---------------------------------------------------------------- cache, step by step
\* Goroutines call Get, Set, Delete, Exists and Clear side by side, and the
\* cleanup routine runs on its ticker.  Once the runtime has ended the
\* process nothing runs.
exceptCache == <<st, turnVars, storeVars, intake, query, updating>>

CacheOps == {"Get", "Set", "Delete", "Exists", "Clear"}
FirstLock(op) == IF op \in {"Get", "Exists"} THEN "RLock" ELSE "Lock"

\* A goroutine calls a method of the cache.
BeginCache(g, op, key) ==
  /\ ~cache.died
  /\ cache.calls[g].at = "idle"
  /\ cache.begun < MaxCacheOps
  /\ cache' = [cache EXCEPT !.calls[g] = CacheCall(op, FirstLock(op), key),
                            !.begun = @ + 1]
  /\ UNCHANGED exceptCache

\* "<-ticker.C" of cleanup
Ticker ==
  /\ ~cache.died
  /\ cache.calls["cleanup"].at = "idle"
  /\ cache.begun < MaxCacheOps
  /\ cache' = [cache EXCEPT !.calls["cleanup"] = CacheCall("cleanup", "Lock", ""),
                            !.begun = @ + 1]
  /\ UNCHANGED exceptCache

\* The statement after c.mu.Lock() and after c.mu.RLock().
AfterLock(op) ==
  CASE op = "Set" -> "store"
    [] op = "Delete" -> "remove"
    [] op = "Clear" -> "reset"
    [] op = "cleanup" -> "sweep"
AfterRLock(op) == IF op = "Get" THEN "lookup" ELSE "check"

\* c.mu.Lock()
CacheLock(g) ==
  /\ ~cache.died
  /\ cache.calls[g].at = "Lock"
  /\ cache.mu.writer = "" /\ cache.mu.readers = {}
  /\ cache' = [cache EXCEPT !.mu.writer = g,
                            !.calls[g].at = AfterLock(cache.calls[g].op)]
  /\ UNCHANGED exceptCache

\* c.mu.RLock()
CacheRLock(g) ==
  /\ ~cache.died
  /\ cache.calls[g].at = "RLock"
  /\ cache.mu.writer = ""
  /\ cache' = [cache EXCEPT !.mu.readers = @ \cup {g},
                            !.calls[g].at = AfterRLock(cache.calls[g].op)]
  /\ UNCHANGED exceptCache

\* Get: "item, exists := c.items[key]" and "if time.Now().After(item.ExpiredAt)"
AfterLookup(c, key) ==
  IF key \in DOMAIN c.items /\ Expired(c, key) THEN "delete" ELSE "RUnlock"

Lookup(g) ==
  /\ ~cache.died
  /\ cache.calls[g].at = "lookup"
  /\ cache' = [cache EXCEPT !.calls[g].at = AfterLookup(cache, cache.calls[g].key)]
  /\ UNCHANGED exceptCache

\* Get: "delete(c.items, key)", with the read lock held
DeleteExpired(g) ==
  /\ ~cache.died
  /\ cache.calls[g].at = "delete"
  /\ \E died \in MayDie(cache, g) :
       cache' = [cache EXCEPT !.items = Remove(@, cache.calls[g].key),
                              !.died = died,
                              !.calls[g].at = "save"]
  /\ UNCHANGED exceptCache

\* Exists: the lookup and "time.Now().Before(item.ExpiredAt)"
Check(g) ==
  /\ ~cache.died
  /\ cache.calls[g].at = "check"
  /\ cache' = [cache EXCEPT !.calls[g].at = "RUnlock"]
  /\ UNCHANGED exceptCache

\* Set: "c.items[key] = item", the item expiring one tick from now
SetItem(g) ==
  /\ ~cache.died
  /\ cache.calls[g].at = "store"
  /\ \E died \in MayDie(cache, g) :
       cache' = [cache EXCEPT !.items = Put(@, cache.calls[g].key, cache.now + 1),
                              !.died = died,
                              !.calls[g].at = "save"]
  /\ UNCHANGED exceptCache

\* Delete: "delete(c.items, key)"
RemoveItem(g) ==
  /\ ~cache.died
  /\ cache.calls[g].at = "remove"
  /\ \E died \in MayDie(cache, g) :
       cache' = [cache EXCEPT !.items = Remove(@, cache.calls[g].key),
                              !.died = died,
                              !.calls[g].at = "save"]
  /\ UNCHANGED exceptCache

\* Clear: "c.items = make(map[string]*cacheItem)"
ResetItems(g) ==
  /\ ~cache.died
  /\ cache.calls[g].at = "reset"
  /\ \E died \in MayDie(cache, g) :
       cache' = [cache EXCEPT !.items = EmptyMap,
                              !.died = died,
                              !.calls[g].at = "save"]
  /\ UNCHANGED exceptCache

\* cleanup: the loop that deletes the expired items; "if changed { c.save() }"
Unexpired(c) == [k \in {x \in DOMAIN c.items : ~Expired(c, x)} |-> c.items[k]]

Sweep(g) ==
  /\ ~cache.died
  /\ cache.calls[g].at = "sweep"
  /\ \E died \in MayDie(cache, g) :
       cache' = [cache EXCEPT !.items = Unexpired(cache),
                              !.died = died,
                              !.calls[g].at = IF Unexpired(cache) # cache.items
                                              THEN "save" ELSE "Unlock"]
  /\ UNCHANGED exceptCache

\* c.save(): MarshalIndent of c.items and WriteFile
AfterSave(op) == IF op = "Get" THEN "RUnlock" ELSE "Unlock"

SaveCache(g) ==
  /\ ~cache.died
  /\ cache.calls[g].at = "save"
  /\ \E torn \in MayTear(cache, g) :
       cache' = [cache EXCEPT !.file = cache.items,
                              !.torn = @ \/ torn,
                              !.calls[g].at = AfterSave(cache.calls[g].op)]
  /\ UNCHANGED exceptCache

\* c.mu.Unlock(), deferred or at the end of cleanup's loop body
CacheUnlock(g) ==
  /\ ~cache.died
  /\ cache.calls[g].at = "Unlock"
  /\ cache' = [cache EXCEPT !.mu.writer = "", !.calls[g] = NoCacheCall]
  /\ UNCHANGED exceptCache

\* defer c.mu.RUnlock()
CacheRUnlock(g) ==
  /\ ~cache.died
  /\ cache.calls[g].at = "RUnlock"
  /\ cache' = [cache EXCEPT !.mu.readers = @ \ {g}, !.calls[g] = NoCacheCall]
  /\ UNCHANGED exceptCache

\* Time passes.
Tick ==
  /\ ~cache.died
  /\ cache.now < MaxTick
  /\ cache' = [cache EXCEPT !.now = @ + 1]
  /\ UNCHANGED exceptCache

CacheCalled == \E g \in Callers, op \in CacheOps, key \in CacheKeys : BeginCache(g, op, key)
CacheLocked == \E g \in CacheGoroutines : CacheLock(g)
CacheRLocked == \E g \in CacheGoroutines : CacheRLock(g)
LookedUp == \E g \in CacheGoroutines : Lookup(g)
ExpiredDeleted == \E g \in CacheGoroutines : DeleteExpired(g)
Checked == \E g \in CacheGoroutines : Check(g)
ItemSet == \E g \in CacheGoroutines : SetItem(g)
ItemRemoved == \E g \in CacheGoroutines : RemoveItem(g)
ItemsReset == \E g \in CacheGoroutines : ResetItems(g)
Swept == \E g \in CacheGoroutines : Sweep(g)
CacheSaved == \E g \in CacheGoroutines : SaveCache(g)
CacheUnlocked == \E g \in CacheGoroutines : CacheUnlock(g)
CacheRUnlocked == \E g \in CacheGoroutines : CacheRUnlock(g)

NextCache ==
  \/ CacheCalled \/ Ticker \/ CacheLocked \/ CacheRLocked \/ LookedUp
  \/ ExpiredDeleted \/ Checked \/ ItemSet \/ ItemRemoved \/ ItemsReset \/ Swept
  \/ CacheSaved \/ CacheUnlocked \/ CacheRUnlocked \/ Tick

SpecCache == Init /\ [][NextCache]_vars

\* ---------------------------------------------------------------- properties
\* The tool calls of the current turn's model response.
Calls == turn.resp.toolCalls
CallIdx == [k \in 1..Len(Calls) |-> k]

Known == turn.userName # ""
Returned == pc \in {"ret", "done"}
HasCalls == turn.resp.kind = "message" /\ Len(Calls) > 0

Parses(tc) == tc.arguments.json = "object"

ValidRecord(tc) ==
  /\ tc.name = "record_transaction"
  /\ Parses(tc)
  /\ getString(tc.arguments.obj, "description") # ""
  /\ getFloat64(tc.arguments.obj, "amount") > 0

ValidRename(tc) ==
  /\ tc.name = "rename_user"
  /\ Parses(tc)
  /\ ~IsBlank(getString(tc.arguments.obj, "name"))

\* The arguments parse but the handler's own checks turn them down.
FailsValidation(tc) ==
  /\ Parses(tc)
  /\ CASE tc.name = "record_transaction" ->
            \/ getString(tc.arguments.obj, "description") = ""
            \/ getFloat64(tc.arguments.obj, "amount") <= 0
       [] tc.name = "rename_user" -> IsBlank(getString(tc.arguments.obj, "name"))
       [] tc.name \in {"update_transaction", "delete_transaction"} ->
            getString(tc.arguments.obj, "record_id") = ""
       [] tc.name = "query_transactions" ->
            getString(tc.arguments.obj, "time_range_type") \notin TimeRangeTypes
       [] OTHER -> FALSE

Invalid(tc) == tc.name \notin KnownTools \/ ~Parses(tc) \/ FailsValidation(tc)

\* The first part of the confirmation a tool writes.
OKMark(name) ==
  CASE name = "record_transaction" -> RecordOK
    [] name = "update_transaction" -> UpdateOK
    [] name = "delete_transaction" -> DeleteOK
    [] name = "rename_user" -> RenameOK
    [] name = "query_transactions" -> QueryOK
    [] OTHER -> "none"

Contains(str, sub) ==
  \E k \in 1..(Len(str) - Len(sub) + 1) : SubSeq(str, k, k + Len(sub) - 1) = sub

IsFailureLine(line) == Head(line) = "X"
HasBanner(str) == Len(str) >= Len(Banner) /\ SubSeq(str, 1, Len(Banner)) = Banner

Indices(seq) == [k \in DOMAIN seq |-> seq[k].i]

\* The tool calls whose handler or argument parsing was reached.
IsAttempt(o) == o.status \in {"ok", "failed"}
Attempted == SelectSeq(outcomes, IsAttempt)
SomeFailed == \E k \in DOMAIN outcomes : outcomes[k].status = "failed"

\* One line of results per attempted tool call, in order: a failure line for
\* a failed one, the tool's confirmation for a successful one.
LinesMatch ==
  /\ Len(turn.results) = Len(Attempted)
  /\ \A j \in DOMAIN Attempted :
       IF Attempted[j].status = "failed"
       THEN IsFailureLine(turn.results[j])
       ELSE Head(turn.results[j]) = OKMark(Calls[Attempted[j].i].name)

RECURSIVE Flat(_)
Flat(ss) == IF ss = <<>> THEN <<>> ELSE Head(ss) \o Flat(Tail(ss))
Listed(lines) == Flat([k \in DOMAIN lines |-> lines[k] \o <<"\n">>])
Separated(lines) ==
  Flat([k \in DOMAIN lines |-> IF k = 1 THEN lines[k] ELSE <<"\n\n">> \o lines[k]])

\* C1: in a turn Execute runs with an empty user name, no call of the bill
\* repository (create, update, delete, get, search) is made and the ledger
\* is as the turn found it; no tool call other than rename_user succeeds or
\* reaches a store.
C1_UnknownUserNeverReachesRepository ==
  (turn.userName = "" /\ pc \in {"exec", "ret", "done"}) =>
    /\ \A k \in DOMAIN trace : trace[k].op = "SetUserName"
    /\ st.ledger = pre.ledger
    /\ st.nextRec = pre.nextRec
    /\ \A k \in DOMAIN outcomes :
         Calls[outcomes[k].i].name # "rename_user" =>
           /\ outcomes[k].status # "ok"
           /\ ~outcomes[k].changed
           /\ \A t \in DOMAIN trace : trace[t].i # outcomes[k].i

C1_Witness ==
  /\ pc = "ret"
  /\ turn.userName = ""
  /\ Len(Calls) = 2
  /\ ValidRecord(Calls[1])
  /\ Len(outcomes) = 1
  /\ outcomes[1].status = "blocked"
  /\ turn.out = WhoAreYou

\* C2 (as claimed): when Execute has run with an empty user name and the
\* list holds a named, parseable tool call other than rename_user, no tool
\* call of the turn was applied: none succeeded, and the ledger and the
\* mapping file are as the turn found them.
Gated(tc) == tc.name \notin {"", "rename_user"} /\ Parses(tc)

C2_GatedTurnExecutesNothing ==
  (Returned /\ turn.userName = "" /\ HasCalls
     /\ \E i \in DOMAIN Calls : Gated(Calls[i])) =>
    /\ \A k \in DOMAIN outcomes : outcomes[k].status # "ok"
    /\ st.ledger = pre.ledger
    /\ st.file = pre.file

\* C3 (as claimed): a sender without a stored name, for whose message the
\* model answers with one valid rename_user call, has that call reach the
\* loop of Execute, and when it succeeds the store maps the sender to the
\* name.
C3_UnidentifiedSenderCanRename ==
  (pc = "done" /\ GetUserName(pre.mappings, turn.openID).err # ""
     /\ HasCalls /\ Len(Calls) = 1 /\ ValidRename(Calls[1])) =>
    /\ Len(outcomes) = 1
    /\ outcomes[1].status = "ok" =>
         GetUserName(st.mappings, turn.openID).name
           = getString(Calls[1].arguments.obj, "name")

\* C4: for a known user, a tool call that fails on its arguments or in the
\* bill repository leaves every store as the earlier calls of the turn left
\* it (any failing call leaves the ledger and the mapping file so), and the
\* reply of a turn with a failed call holds one line per attempted call: the
\* confirmation of each successful one, a failure line for each failed one.
FailedPass ==
  /\ pc = "exec"
  /\ Len(outcomes') = Len(outcomes) + 1
  /\ outcomes'[Len(outcomes')].status = "failed"

C4_Kept ==
  (FailedPass /\ Known) =>
    /\ st'.ledger = st.ledger
    /\ st'.nextRec = st.nextRec
    /\ st'.file = st.file
    /\ ~ValidRename(Calls[turn.i]) => st' = st

C4_Reported ==
  (pc = "done" /\ Known /\ SomeFailed) =>
    /\ LinesMatch
    /\ Len(replies) = 1
    /\ \A j \in DOMAIN turn.results : Contains(replies[1], turn.results[j])

C4_PartialFailureKeepsAndReports == [][C4_Kept]_vars /\ []C4_Reported

C4_Witness ==
  /\ pc = "done"
  /\ Known
  /\ Len(outcomes) = 2
  /\ outcomes[1].status = "ok"
  /\ outcomes[1].changed
  /\ outcomes[2].status = "failed"
  /\ ValidRecord(Calls[1])
  /\ st.ledger # pre.ledger
  /\ Contains(replies[1], Lit(RecordOK))

\* C5: for a known user the loop passes the tool calls one by one in the
\* order of the list; when Execute has returned, every named call was
\* attempted exactly once, in order, whatever failed before it, and the
\* CreateBill calls are exactly those of the valid record_transaction calls,
\* in order.
IsCreate(e) == e.op = "CreateBill"
IsNamed(i) == Calls[i].name # ""
IsValidRecord(i) == ValidRecord(Calls[i])

C5_EachCallOnceInOrder ==
  (Known /\ pc \in {"exec", "ret", "done"}) =>
    /\ Indices(outcomes) = [k \in 1..Len(outcomes) |-> k]
    /\ pc = "exec" => Len(outcomes) = turn.i - 1
    /\ (Returned /\ HasCalls) =>
         /\ Indices(Attempted) = SelectSeq(CallIdx, IsNamed)
         /\ Indices(SelectSeq(trace, IsCreate)) = SelectSeq(CallIdx, IsValidRecord)

C5_Witness ==
  /\ pc = "ret"
  /\ Known
  /\ Len(Calls) = 2
  /\ ValidRecord(Calls[1])
  /\ ValidRecord(Calls[2])
  /\ outcomes[1].status = "failed"
  /\ outcomes[2].status = "ok"
  /\ Indices(trace) = <<1, 2>>

\* C6: a message never gets more than one reply, a finished turn has sent
\* exactly one, and every turn that has begun finishes.
InTurn == pc \notin {"idle", "done"}
OneReply == pc = "done" /\ Len(replies) = 1

C6_EveryTurnRepliesOnce ==
  /\ [](Len(replies) <= 1)
  /\ [](pc = "done" => Len(replies) = 1)
  /\ (InTurn ~> OneReply)

C6_Witness ==
  /\ pc = "done"
  /\ Len(replies) = 1
  /\ turn.err = "no valid tool calls"

\* C7 (as claimed): the reply of a finished turn holds the confirmation of
\* every tool call whose pass changed a store.
C7_ReplyNamesEveryEffect ==
  (pc = "done" /\ Len(replies) = 1) =>
    \A k \in DOMAIN outcomes :
      outcomes[k].changed =>
        Contains(replies[1], Lit(OKMark(Calls[outcomes[k].i].name)))

\* C8: the reply of a known user's turn with at least one named tool call
\* begins with the banner exactly when a call failed; without a failure it
\* is the confirmations in order with a blank line between them, with a
\* failure it is the banner and then every line, in order.
C8_BannerIffFailure ==
  (pc = "done" /\ Known /\ HasCalls /\ \E i \in DOMAIN Calls : IsNamed(i)) =>
    /\ LinesMatch
    /\ Len(replies) = 1
    /\ HasBanner(replies[1]) <=> SomeFailed
    /\ replies[1] = IF SomeFailed
                    THEN Banner \o Listed(turn.results)
                    ELSE Separated(turn.results)

C8_Witness ==
  /\ pc = "done"
  /\ Known
  /\ Len(outcomes) = 2
  /\ ~SomeFailed
  /\ Len(turn.results) = 2
  /\ replies[1] = turn.results[1] \o <<"\n\n">> \o turn.results[2]

\* C9 (as claimed): when none of the tool calls is valid, Execute returns
\* the error "no valid tool calls".
C9_NoneValidFailsTurn ==
  (Returned /\ Known /\ HasCalls /\ \A i \in DOMAIN Calls : Invalid(Calls[i])) =>
    turn.err = "no valid tool calls"

\* C9 (amended): Execute returns the error "no valid tool calls" exactly
\* when every tool call of the list has an empty name; a known user's list
\* of invalid calls of which one is named gives no error but the banner and
\* the failure lines.
C9_OnlyUnnamedCallsFailTurn ==
  (Returned /\ HasCalls) =>
    /\ turn.err = "no valid tool calls" <=> \A i \in DOMAIN Calls : ~IsNamed(i)
    /\ (Known /\ (\A i \in DOMAIN Calls : Invalid(Calls[i]))
          /\ \E i \in DOMAIN Calls : IsNamed(i)) =>
         /\ turn.err = ""
         /\ HasBanner(turn.out)
         /\ \A j \in DOMAIN turn.results : IsFailureLine(turn.results[j])

C9_Witness ==
  /\ pc = "ret"
  /\ Known
  /\ Len(Calls) = 1
  /\ Calls[1].name = "transfer_money"
  /\ turn.err = ""
  /\ HasBanner(turn.out)

\* C10 (as claimed): when the model call fails or returns no choices, no
\* tool call is executed and the reply is the "cannot understand" message.
C10_ModelFailureGenericReply ==
  (pc = "done" /\ Known /\ turn.resp.kind \in {"error", "empty"}) =>
    /\ outcomes = <<>>
    /\ trace = <<>>
    /\ st = pre
    /\ replies = <<CannotUnderstand>>

\* ---------------------------------------------------------------- ledger
\* The loop stands before a tool call; Current is that call.
AtCall == pc = "exec" /\ turn.i <= Len(Calls)
Current == Calls[turn.i]
Args(tc) == tc.arguments.obj

\* The outcomes of the turn so far that belong to calls of one tool.
OutcomesOf(name, status) ==
  {k \in DOMAIN outcomes :
     outcomes[k].status = status /\ Calls[outcomes[k].i].name = name}

\* C11: after any sequence of record_transaction and update_transaction
\* calls, whatever their arguments, every stored record has an amount above
\* zero, a description and a category that are not empty; and the record a
\* valid record_transaction creates holds exactly the amount of its arguments.
C11_Stored ==
  \A id \in DOMAIN st.ledger :
    /\ st.ledger[id].Amount > 0
    /\ st.ledger[id].Description # ""
    /\ st.ledger[id].Category # ""

C11_AmountGiven ==
  AtCall /\ ValidRecord(Current) =>
    \A id \in DOMAIN st'.ledger \ DOMAIN st.ledger :
      st'.ledger[id].Amount = getFloat64(Args(Current), "amount")

C12_Rejected ==
  AtCall /\ Current.name = "record_transaction" /\ FailsValidation(Current) =>
    /\ st' = st
    /\ trace' = trace
    /\ turn'.results =
         Append(turn.results,
                Lit("X") \o Lit("record_transaction") \o Lit(" failed: ")
                  \o Lit("invalid args"))
    /\ outcomes'[Len(outcomes')].status = "failed"
    /\ turn'.i = turn.i + 1
    /\ pc' = "exec"

C12_RestExecutes ==
  pc = "ret" /\ HasCalls => Indices(outcomes) = CallIdx /\ LinesMatch

C12_InvalidRecordFailsAlone == [][C12_Rejected]_vars /\ []C12_RestExecutes

\* An invalid record came first and the call after it was carried out.
C12_Witness ==
  /\ pc = "ret"
  /\ Len(Calls) = 2
  /\ Calls[1].name = "record_transaction" /\ FailsValidation(Calls[1])
  /\ Len(outcomes) = 2
  /\ outcomes[1].status = "failed"
  /\ outcomes[2].status = "ok" /\ outcomes[2].changed

\* C13: the date of every record is the server's time (time.Now(), as the
\* table keeps it) when the record was created, whatever the arguments of the
\* call held, a date field included; and no later step, update_transaction
\* included, changes the date of a record that stays in the ledger.
C13_Stamped ==
  \A id \in DOMAIN st'.ledger :
    IF id \in DOMAIN st.ledger
    THEN st'.ledger[id].Date = st.ledger[id].Date
    ELSE st'.ledger[id].Date = st.now

C14_Confirmed ==
  AtCall /\ Current.name = "record_transaction" =>
    \A id \in DOMAIN st'.ledger \ DOMAIN st.ledger :
      /\ Len(turn'.results) = Len(turn.results) + 1
      /\ Contains(turn'.results[Len(turn'.results)], Lit("id:") \o Lit(id))

C14_ConfirmationCarriesRecordID == [][C14_Confirmed]_vars

\* The last outcome written is that of the call the loop stood at.
StepOK == outcomes'[Len(outcomes')].status = "ok"
Target == getString(Args(Current), "record_id")

\* C15: an update_transaction that succeeds changes, of the description, the
\* amount, the type and the category of the record it names, exactly the ones
\* its arguments supply (a string that is not empty, an amount above zero), to
\* the value supplied, and leaves the others and every other record as they
\* were; with only the amount supplied the amount becomes the new value and
\* description, category and type stay.
C15_Changed ==
  AtCall /\ Current.name = "update_transaction" /\ StepOK =>
    /\ Target \in DOMAIN st.ledger
    /\ DOMAIN st'.ledger = DOMAIN st.ledger
    /\ \A id \in DOMAIN st.ledger \ {Target} : st'.ledger[id] = st.ledger[id]
    /\ st'.ledger[Target].Description =
         IF getString(Args(Current), "description") # ""
         THEN getString(Args(Current), "description")
         ELSE st.ledger[Target].Description
    /\ st'.ledger[Target].Amount =
         IF getFloat64(Args(Current), "amount") > 0
         THEN getFloat64(Args(Current), "amount")
         ELSE st.ledger[Target].Amount
    /\ st'.ledger[Target].Type =
         IF getString(Args(Current), "type") # ""
         THEN getString(Args(Current), "type")
         ELSE st.ledger[Target].Type
    /\ st'.ledger[Target].Category =
         IF getString(Args(Current), "category") # ""
         THEN getString(Args(Current), "category")
         ELSE st.ledger[Target].Category

C16_Joined ==
  AtCall /\ Current.name = "update_transaction" /\ StepOK =>
    /\ Target \in DOMAIN st'.ledger
    /\ st'.ledger[Target].OriginalMsg \in
         { st.ledger[Target].OriginalMsg \o " | " \o turn.input, turn.input }
    /\ st.ledger[Target].OriginalMsg = "" =>
         st'.ledger[Target].OriginalMsg = turn.input

NoFields(tc) ==
  DOMAIN Args(tc) \cap {"description", "amount", "type", "category", "original_message"} = {}

C17_Refused ==
  AtCall /\ Current.name = "update_transaction" /\ Target \in DOMAIN st.ledger
         /\ NoFields(Current) =>
    /\ st' = st
    /\ outcomes'[Len(outcomes')].status = "failed"
    /\ Contains(turn'.results[Len(turn'.results)], Lit("no fields to update"))
    /\ \A k \in DOMAIN trace' : k > Len(trace) => trace'[k].op # "UpdateBill"

C17_UpdateWithoutFieldsFails == [][C17_Refused]_vars

\* ---------------------------------------------------------------- identity
\* C18: after any sequence of rename_user calls, every name GetUserName
\* returns is neither empty nor made of whitespace only, and so is the name a
\* turn runs under; a rename_user whose name is empty or whitespace only
\* fails, with a failure line of its own, and leaves the mapping and the
\* mapping file as they were.
C18_Names ==
  /\ \A s \in Senders :
       GetUserName(st.mappings, s).err = "" =>
         GetUserName(st.mappings, s).name \notin {"", " "}
  /\ pc \in {"model", "exec", "ret"} => turn.userName \notin {"", " "}

C18_BlankRefused ==
  AtCall /\ Current.name = "rename_user"
         /\ getString(Args(Current), "name") \in {"", " "} =>
    /\ st' = st
    /\ outcomes'[Len(outcomes')].status = "failed"
    /\ Len(turn'.results) = Len(turn.results) + 1
    /\ IsFailureLine(turn'.results[Len(turn'.results)])

C18_NamesAreNeverBlank == []C18_Names /\ [][C18_BlankRefused]_vars

\* The sender was renamed, and a rename to a blank name has failed since.
C18_Witness ==
  /\ "ou_a" \in DOMAIN st.mappings /\ st.mappings["ou_a"] = "Li"
  /\ \E k \in OutcomesOf("rename_user", "failed") :
       getString(Args(Calls[outcomes[k].i]), "name") = " "

\* The name of the last rename_user of the turn that succeeded.
LastRenamed ==
  LET ks == OutcomesOf("rename_user", "ok")
      k == CHOOSE x \in ks : \A y \in ks : y <= x
  IN getString(Args(Calls[outcomes[k].i]), "name")

\* C19: after a rename_user to N that succeeded, every record the sender
\* creates is stored with N as the name of its owner; stated for the records
\* a record_transaction creates after the rename_user inside the same turn.
C19_Owned ==
  AtCall /\ Current.name = "record_transaction"
         /\ OutcomesOf("rename_user", "ok") # {} =>
    \A id \in DOMAIN st'.ledger \ DOMAIN st.ledger :
      st'.ledger[id].UserName = LastRenamed

C19_RecordsCarryNewName == [][C19_Owned]_vars

\* ---------------------------------------------------------------- goroutines
AllReturned == \A g \in Goroutines : calls[g].at = "idle"

\* The SetUserName calls for a sender that have returned without an error.
Completed(s) ==
  {k \in DOMAIN returned :
     returned[k].op = "SetUserName" /\ returned[k].openID = s /\ returned[k].err = ""}

LastCompleted(s) == CHOOSE k \in Completed(s) : \A j \in Completed(s) : j <= k

Holds(m, s, name) == s \in DOMAIN m /\ m[s] = name
Intact(m, s) ==
  \A m0 \in StartMappings :
    IF s \in DOMAIN m0 THEN Holds(m, s, m0[s]) ELSE s \notin DOMAIN m

\* C20: under any interleaving of SetUserName and GetUserName calls of
\* goroutines running side by side no update is lost: when all calls have
\* returned, the map in memory and the mapping file both hold, for each
\* sender, the name of the last SetUserName for that sender that completed,
\* and the name of a sender no SetUserName completed for is as it was.
C20_NoLostUpdate ==
  AllReturned =>
    \A s \in Senders :
      IF Completed(s) # {}
      THEN /\ Holds(st.mappings, s, returned[LastCompleted(s)].userName)
           /\ Holds(st.file, s, returned[LastCompleted(s)].userName)
      ELSE Intact(st.mappings, s) /\ Intact(st.file, s)

\* C30 (as stated): for a known user, a call whose arguments do not parse or
\* whose name is none of the five declared operations (the empty name
\* included) leaves both stores alone, adds one failure line and lets the
\* loop go on with the next call.
Unparseable == ~Parses(Current)
Undeclared == Current.name \notin KnownTools
FailsAlone ==
  /\ st' = st
  /\ trace' = trace
  /\ Len(turn'.results) = Len(turn.results) + 1
  /\ SubSeq(turn'.results, 1, Len(turn.results)) = turn.results
  /\ IsFailureLine(turn'.results[Len(turn'.results)])
  /\ turn'.hasError
  /\ outcomes'[Len(outcomes')].status = "failed"
  /\ pc' = "exec"
  /\ turn'.i = turn.i + 1

C30_OutsideNameFailsAlone ==
  [][(AtCall /\ Known /\ (Unparseable \/ Undeclared)) => FailsAlone]_vars

\* C30 (amended): the same for a call that has a name; a call without a name
\* is passed over without a line.
C30_NamedBadCallFailsAlone ==
  [][/\ (AtCall /\ Known /\ Current.name # "" /\ (Unparseable \/ Undeclared))
          => FailsAlone
     /\ (AtCall /\ Known /\ Current.name = "")
          => /\ st' = st
             /\ trace' = trace
             /\ turn'.results = turn.results
             /\ turn'.hasError = turn.hasError
             /\ pc' = "exec"
             /\ turn'.i = turn.i + 1]_vars

C30_Witness ==
  /\ pc = "ret"
  /\ Known
  /\ Len(Calls) = 2
  /\ Calls[1].name = "transfer_money"
  /\ ValidRecord(Calls[2])
  /\ outcomes[1].status = "failed"
  /\ outcomes[2].status = "ok"
  /\ st.ledger # pre.ledger
  /\ Len(turn.results) = 2
  /\ IsFailureLine(turn.results[1])

\* ---------------------------------------------------------------- addressing
Handling == pc # "idle" /\ intake # NoIntake
Msg == intake.message
InGroupChat == Msg.chatType \in GroupTypes
Processed == pc \in {"ensure", "model", "ret", "done"}
NamesBot(mention) == mention.name = BotName
CurrentMentionsBot == \E k \in DOMAIN Msg.mentions : NamesBot(Msg.mentions[k])
PointsAtBot(mention) == mention.name = Ptr(BotName)
MentionsBot(msg) == \E k \in DOMAIN msg.mentions : PointsAtBot(msg.mentions[k])
InThread == Msg.threadID # ""
ThreadStartsWithBot ==
  InThread /\ Len(intake.items) > 0 /\ MentionsBot(intake.items[1])
NoTurnBegun ==
  /\ pc = "skipped"
  /\ turn = NoTurn
  /\ replies = <<>>
  /\ trace = <<>>
  /\ st = pre
SkippedStaysSilent ==
  pc = "skipped" => (pc' = "idle" /\ st' = st /\ replies' = <<>> /\ turn' = NoTurn)

\* C21 (as stated): a direct message is always processed; a group message is
\* processed exactly when it mentions the bot or its thread starts with a
\* message that mentions the bot; a message that is not processed starts no
\* turn.
C21_ProcessedIffMentionOrThread ==
  /\ [](Handling =>
          /\ Msg.chatType = "p2p" => Processed
          /\ InGroupChat => (Processed <=> (CurrentMentionsBot \/ ThreadStartsWithBot))
          /\ ~Processed => NoTurnBegun)
  /\ [][SkippedStaysSilent]_vars

\* C21 (amended): the thread counts only when its messages were retrieved.
C21_ProcessedIffMentionOrListedThread ==
  /\ [](Handling =>
          /\ Msg.chatType = "p2p" => Processed
          /\ InGroupChat =>
               (Processed <=> (CurrentMentionsBot
                                 \/ (ThreadStartsWithBot /\ intake.listed = "ok")))
          /\ ~Processed => NoTurnBegun)
  /\ [][SkippedStaysSilent]_vars

C21_Witness ==
  /\ pc = "done"
  /\ InGroupChat
  /\ ~CurrentMentionsBot
  /\ Len(intake.items) = 2
  /\ ThreadStartsWithBot
  /\ ~MentionsBot(intake.items[2])
  /\ Len(replies) = 1

\* C22: when the listing of the thread fails, a group message is processed
\* exactly when it mentions the bot itself; the turn then has no history,
\* the model is given one user message with the current text without the
\* bot's mention key, and the turn goes on to its reply.
IsBotKey(piece) ==
  \E k \in DOMAIN Msg.mentions : NamesBot(Msg.mentions[k]) /\ Msg.mentions[k].key = piece
NotBotKey(piece) == ~IsBotKey(piece)
StrippedText == TrimSpace(SelectSeq(Msg.text, NotBotKey))
ModelCalled == pc \in {"ret", "done"} /\ turn.out # <<>>

C22_ListingFailureFallsBack ==
  (Handling /\ InGroupChat /\ intake.listed = "failed") =>
    /\ Processed <=> CurrentMentionsBot
    /\ Processed =>
         /\ turn.history = <<>>
         /\ turn.input = StrippedText
         /\ ModelCalled => turn.msgs = <<[role |-> "user", content |-> StrippedText]>>
    /\ pc = "done" => Len(replies) = 1

C22_Witness ==
  /\ pc = "done"
  /\ InGroupChat
  /\ intake.listed = "failed"
  /\ MentionsBot(intake.items[1])
  /\ CurrentMentionsBot
  /\ Len(Msg.text) > Len(turn.input)
  /\ turn.msgs = <<[role |-> "user", content |-> <<"lunch 30">>]>>
  /\ turn.resp.kind = "message"
  /\ Len(replies) = 1

\* C23: the history built from a listed thread has one turn for each message
\* that is not deleted and whose content parses to a text that is not empty,
\* in the order of the thread; a turn is the assistant's exactly when its
\* message was sent by the app, and it carries the words of its message.
Kept(msg) == ~msg.deleted /\ msg.body.json = "object" /\ msg.body.text # <<>>
KeptItems == SelectSeq(intake.items, Kept)
MentionKeys == {"@_user_1", "@_user_2"}
IsWord(piece) == piece # Blank /\ piece \notin MentionKeys
Words(text) == SelectSeq(text, IsWord)
ThreadListed == Handling /\ InGroupChat /\ intake.listed = "ok"

C23_HistoryIsKeptSubsequence ==
  ThreadListed =>
    /\ Len(intake.built) = Len(KeptItems)
    /\ \A k \in DOMAIN intake.built :
         /\ intake.built[k].role \in {"assistant", "user"}
         /\ intake.built[k].role = "assistant" <=> KeptItems[k].senderType = Ptr("app")
         /\ Words(intake.built[k].content) = Words(KeptItems[k].body.text)

C23_Witness ==
  /\ ThreadListed
  /\ Len(intake.items) = 2
  /\ intake.items[1].deleted
  /\ intake.items[2].senderType = Ptr("app")
  /\ intake.built = <<[role |-> "assistant", content |-> <<"recorded">>]>>

\* C24: in every turn built from a message that mentions the bot, the key of
\* the bot's mention is no longer in the text and the keys of the mentions of
\* other participants are still there.
InText(text, key) == \E k \in DOMAIN text : <<text[k]>> = key
KeysSorted(k) ==
  \A j \in DOMAIN KeptItems[k].mentions :
    InText(KeptItems[k].body.text, KeptItems[k].mentions[j].key) =>
      IF PointsAtBot(KeptItems[k].mentions[j])
      THEN ~InText(intake.built[k].content, KeptItems[k].mentions[j].key)
      ELSE InText(intake.built[k].content, KeptItems[k].mentions[j].key)

C24_OnlyBotKeyStripped ==
  ThreadListed =>
    \A k \in DOMAIN intake.built : MentionsBot(KeptItems[k]) => KeysSorted(k)

\* C25: when the history handed to the turn has a user turn, its last user
\* turn holds the current text without the bot's mention key, and every
\* other turn holds the text it was built with.
IsUserTurn(k) == intake.history[k].role = "user"
UserTurns == {k \in DOMAIN intake.history : IsUserTurn(k)}
LastUserTurn == CHOOSE k \in UserTurns : \A j \in UserTurns : j <= k

C25_LastUserTurnHoldsCurrentText ==
  (Handling /\ Processed /\ UserTurns # {}) =>
    /\ turn.history = intake.history
    /\ Len(intake.history) = Len(intake.built)
    /\ intake.history[LastUserTurn].content = StrippedText
    /\ \A k \in DOMAIN intake.history :
         k # LastUserTurn => intake.history[k] = intake.built[k]

\* ---------------------------------------------------------------- windows
AskedType == getString(query.args, "time_range_type")
WasAsked == query # NoQuery
Now == ClockAt(st.now)
FirstInstant(year, month, day) == Time(AbsDay(year, month, day), 0, 0, "Local")
LastInstant(year, month, day) == Time(AbsDay(year, month, day), 86399, 999999999, "Local")
PrevYear == IF Month(Now) = 1 THEN Year(Now) - 1 ELSE Year(Now)
PrevMonth == IF Month(Now) = 1 THEN 12 ELSE Month(Now) - 1

\* C26: on every day of the clock this_month is the window from the first
\* instant of the first day of the month to the last instant of its last
\* day, and last_month the same for the month before.
C26_MonthWindows ==
  /\ (WasAsked /\ AskedType = "this_month") =>
       /\ query.window.err = ""
       /\ query.window.startTime = FirstInstant(Year(Now), Month(Now), 1)
       /\ query.window.endTime
            = LastInstant(Year(Now), Month(Now), DaysIn(Year(Now), Month(Now)))
  /\ (WasAsked /\ AskedType = "last_month") =>
       /\ query.window.err = ""
       /\ query.window.startTime = FirstInstant(PrevYear, PrevMonth, 1)
       /\ query.window.endTime
            = LastInstant(PrevYear, PrevMonth, DaysIn(PrevYear, PrevMonth))

\* C27: on every day of the clock this_week is the window from the first
\* instant of a Monday to the last second of the Sunday six days later, and
\* the clock is inside it (a Sunday belongs to the week it ends); last_week
\* is the window of the week before: the same, seven days earlier.
IsMonday(t) == Weekday(t) = 1
IsSunday(t) == Weekday(t) = 0
DayOpens(t) == t.sec = 0 /\ t.nano = 0
DayCloses(t) == t.sec = 86399 /\ t.nano = 999999999
WeekOf(start, end) ==
  /\ IsMonday(start) /\ DayOpens(start)
  /\ IsSunday(end) /\ DayCloses(end)
  /\ end.abs = start.abs + 6
  /\ start.loc = "Local" /\ end.loc = "Local"

C27_WeekWindows ==
  /\ (WasAsked /\ AskedType = "this_week") =>
       /\ query.window.err = ""
       /\ WeekOf(query.window.startTime, query.window.endTime)
       /\ NotAfter(query.window.startTime, Now)
       /\ NotAfter(Now, query.window.endTime)
  /\ (WasAsked /\ AskedType = "last_week") =>
       /\ query.window.err = ""
       /\ WeekOf(query.window.startTime, query.window.endTime)
       /\ query.window.startTime.abs + 7 <= Now.abs
       /\ Now.abs <= query.window.endTime.abs + 7

C27_Witness ==
  /\ WasAsked
  /\ AskedType = "this_week"
  /\ IsSunday(Now)
  /\ Day(Now) = 1
  /\ query.window.endTime.abs = Now.abs
  /\ Month(query.window.startTime) # Month(Now)
  /\ query.log = <<"QueryTransactions">>

\* C28: a custom window takes each bound by itself: a date with a time of
\* day stands as written, a date alone is the first instant of its day as
\* the start and 23:59:59 of its day as the end; when a bound is missing or
\* cannot be read there is an error and no window, and the query fails
\* without a search.
AskedStart == getString(query.args, "start_time")
AskedEnd == getString(query.args, "end_time")
DateOnly == {"2024-12-01", "2024-12-10"}
FullTime == {"2024-12-01 08:30:00"}
DayWritten(str) == IF str = "2024-12-10" THEN 10 ELSE 1
SecondWritten(str) == IF str \in FullTime THEN 30600 ELSE 0
At(t, day, sec, nano) ==
  /\ Year(t) = 2024 /\ Month(t) = 12 /\ Day(t) = day
  /\ t.sec = sec /\ t.nano = nano
StartAsWritten ==
  At(query.window.startTime, DayWritten(AskedStart), SecondWritten(AskedStart), 0)
EndAsWritten ==
  IF AskedEnd \in FullTime
  THEN At(query.window.endTime, DayWritten(AskedEnd), SecondWritten(AskedEnd), 0)
  ELSE At(query.window.endTime, DayWritten(AskedEnd), 86399, 999999999)
Searched == query.log = <<"QueryTransactions">>

C28_CustomWindow ==
  (WasAsked /\ AskedType = "custom") =>
    IF AskedStart \in DateOnly \cup FullTime /\ AskedEnd \in DateOnly \cup FullTime
    THEN /\ query.window.err = ""
         /\ StartAsWritten
         /\ EndAsWritten
         /\ Searched
    ELSE /\ query.err # ""
         /\ query.window.startTime = ZeroTime
         /\ query.window.endTime = ZeroTime
         /\ ~Searched
         /\ query.log = <<>>

C28_Witness ==
  /\ WasAsked
  /\ AskedType = "custom"
  /\ AskedStart = "2024-12-01"
  /\ AskedEnd = "2024-12-10"
  /\ query.window.startTime = FirstInstant(2024, 12, 1)
  /\ query.window.endTime = LastInstant(2024, 12, 10)
  /\ Searched
  /\ query.err = ""

\* C29: a query that succeeds reports the income, the expense and their
\* difference over the user's records in the window, and lists the records
\* with the largest amounts, largest first: as many as top_n says, five when
\* top_n is not given, or all of them when there are fewer.
Counted(id) ==
  /\ st.ledger[id].UserName = "Zhang"
  /\ NotAfter(query.window.startTime, ClockAt(st.ledger[id].Date))
  /\ NotAfter(ClockAt(st.ledger[id].Date), query.window.endTime)
Matching == {id \in DOMAIN st.ledger : Counted(id)}

RECURSIVE TotalUpTo(_, _)
TotalUpTo(k, type) ==
  IF k = 0 THEN 0
  ELSE TotalUpTo(k - 1, type)
         + (IF RecID(k) \in Matching /\ st.ledger[RecID(k)].Type = type
            THEN st.ledger[RecID(k)].Amount ELSE 0)
Income == TotalUpTo(MaxBills, "income")
Expense == TotalUpTo(MaxBills, "expense")

AskedTopN ==
  IF "top_n" \in DOMAIN query.args /\ query.args["top_n"].t = "n"
  THEN query.args["top_n"].n ELSE 5
ListedCount ==
  IF Cardinality(Matching) < AskedTopN THEN Cardinality(Matching) ELSE AskedTopN
ListedID(j) == query.out[11 + (7 * j)]
ListedAmount(j) == query.out[8 + (7 * j)]
ListedIDs == {ListedID(j) : j \in 1..ListedCount}
Succeeded == WasAsked /\ query.err = "" /\ Searched

AsksNoTool == turn.resp.kind = "message" /\ Len(turn.resp.toolCalls) = 0

\* C31: when the model's response holds no tool call, Execute returns the
\* content of the response as it is, with no error, and has called neither
\* the ledger repository nor the user mapping repository: no store call is on
\* the turn's trace and the stores are as they were when the turn began.
C31_NoToolCallReturnsContent ==
  (Returned /\ AsksNoTool) =>
    /\ turn.out = <<turn.resp.content>>
    /\ turn.err = ""
    /\ trace = <<>>
    /\ outcomes = <<>>
    /\ st = pre

\* Execute has returned a response without tool calls and without text, for
\* a sender who has no stored name.
C31_Witness ==
  /\ Returned
  /\ AsksNoTool
  /\ turn.resp.content = ""
  /\ turn.userName = ""
  /\ turn.out = <<"">>

\* ---------------------------------------------------------------- argument errors of updates
\* The call supplies an amount that is a number not above zero.
NonPositiveAmount(tc) ==
  /\ tc.arguments.json = "object"
  /\ "amount" \in DOMAIN Args(tc)
  /\ Args(tc).amount.t = "n"
  /\ Args(tc).amount.n <= 0

\* C32: an update_transaction call that supplies an amount not above zero is
\* an argument error: the pass adds a failure line, counts as failed and
\* leaves every record of the ledger as it was.
C32_Refused ==
  AtCall /\ Current.name = "update_transaction" /\ NonPositiveAmount(Current) =>
    /\ st'.ledger = st.ledger
    /\ outcomes'[Len(outcomes')].status = "failed"
    /\ Len(turn'.results) = Len(turn.results) + 1
    /\ IsFailureLine(turn'.results[Len(turn'.results)])

Created == DOMAIN st'.ledger \ DOMAIN st.ledger

\* C33: a record_transaction call whose category is empty or missing stores
\* its record under the fallback label of the category enumeration declared
\* to the model, so the category of a defaulted record is one of the
\* enumeration.
C33_Defaulted ==
  AtCall /\ Current.name = "record_transaction" /\ StepOK
         /\ getString(Args(Current), "category") = "" =>
    \A id \in Created :
      /\ st'.ledger[id].Category = FallbackCategory
      /\ st'.ledger[id].Category \in Categories

C33_DefaultCategoryIsOfEnumeration == [][C33_Defaulted]_vars

\* ---------------------------------------------------------------- the model's input
\* The history entry k was given another text than the one it was built with.
Rewritten(k) == intake.history[k].content # intake.built[k].content

\* The kept thread message behind history entry k is the current message.
IsCurrentMessage(k) ==
  /\ KeptItems[k].body.text = Msg.text
  /\ RoleOf(KeptItems[k]) = "user"

SentAsUserTurn(text) ==
  \E k \in DOMAIN turn.msgs :
    turn.msgs[k].role = "user" /\ turn.msgs[k].content = text

\* C34: in every turn that reaches the model, the messages sent hold the
\* current text (as the handler stripped it) as a user turn, and the only
\* history entry whose text the handler replaced is the one of the current
\* message itself, whatever the thread listing returned: a history that ends
\* with an assistant turn, or one without the current message.
C34_ModelSeesCurrentText ==
  (Handling /\ ModelCalled) =>
    /\ SentAsUserTurn(intake.text)
    /\ \A k \in DOMAIN intake.history : Rewritten(k) => IsCurrentMessage(k)

\* ---------------------------------------------------------------- updates side by side
\* Both goroutines have updated the record and were told it went well.
Updated(g) == updating[g].at = "done" /\ updating[g].err = ""
BothUpdated(id) ==
  \A g \in Goroutines : Updated(g) /\ RecordOf(updating[g]) = id

\* The fields an update can change that the call of g supplies.
Supplies(g, field) == UpdatesOf(updating[g])[field] # Nil
Supplied(g, field) == UpdatesOf(updating[g])[field][1]

\* A field that one call changed and the other did not touch has the value
\* of the call that changed it.
KeepsChange(bill, g, h) ==
  /\ (Supplies(g, "description") /\ ~Supplies(h, "description")) =>
       bill.Description = Supplied(g, "description")
  /\ (Supplies(g, "amount") /\ ~Supplies(h, "amount")) =>
       bill.Amount = Supplied(g, "amount")
  /\ (Supplies(g, "category") /\ ~Supplies(h, "category")) =>
       bill.Category = Supplied(g, "category")

\* The stored original message with both utterances added, in either order.
BothAdded(old) ==
  { old \o " | " \o Utterance(g) \o " | " \o Utterance(h) :
      <<g, h>> \in {p \in Goroutines \X Goroutines : p[1] # p[2]} }

OfOthers == {id \in DOMAIN st.ledger : st.ledger[id].UserName # turn.userName}

\* The stores with the records of the other users taken out of the ledger.
WithoutOthers ==
  [st EXCEPT !.ledger = [id \in DOMAIN st.ledger \ OfOthers |-> st.ledger[id]]]

\* What the query of the current call answers when the ledger holds the
\* turn's user's records alone.
AnswerWithoutOthers ==
  handleQueryTransactions(Args(Current),
                          BillService(turn.openID, turn.userName, turn.input),
                          WithoutOthers, "none").out

\* C36: no tool call of a turn changes or deletes a record whose user is not
\* the turn's user, update_transaction and delete_transaction with that
\* record's id included; and a query_transactions of the turn answers what it
\* would answer were the other users' records not in the ledger.
C36_Step ==
  AtCall /\ Known =>
    /\ \A id \in OfOthers :
         id \in DOMAIN st'.ledger /\ st'.ledger[id] = st.ledger[id]
    /\ (Current.name = "query_transactions" /\ StepOK) =>
         turn'.results[Len(turn'.results)] = AnswerWithoutOthers

C37_StartNotAfterEnd ==
  (WasAsked /\ query.window.err = "") =>
    NotAfter(query.window.startTime, query.window.endTime)

\* ---------------------------------------------------------------- renames that fail
\* C38: a rename_user call that fails, SetUserName having turned the name
\* down or save() having failed to write the mapping file, leaves the user
\* mapping repository as it was: GetUserName answers for every sender what it
\* answered before the call.
C38_FailedRename ==
  (AtCall /\ Current.name = "rename_user"
          /\ outcomes'[Len(outcomes')].status = "failed") =>
    \A s \in Senders : GetUserName(st'.mappings, s) = GetUserName(st.mappings, s)

C38_FailedRenameChangesNothing == [][C38_FailedRename]_vars

\* A goroutine stands at a statement that changes the items map or
\* serializes it to the file.
WritesMap(g) == cache.calls[g].at \in MapWrites \cup {"save"}

\* C39: in the file-backed cache the items map is changed or saved only by
\* the goroutine holding the exclusive lock, so under every interleaving of
\* Get, Set, Delete, Exists, Clear and cleanup no two goroutines change or
\* save the map at the same time, also when Get finds an expired key.
C39_MapWrittenUnderExclusiveLock ==
  /\ \A g \in CacheGoroutines : WritesMap(g) => cache.mu.writer = g
  /\ \A g \in CacheGoroutines : \A h \in CacheGoroutines \ {g} :
       ~(WritesMap(g) /\ WritesMap(h))

====
